---- MODULE Spec2Model ----
(***************************************************************************)
(* Gauntlet: the reward-accounting engine and the compounding saga of the  *)
(* Solana program in src/src/processor.rs.                                 *)
(*                                                                         *)
(* One vault (index 0), the registered strategies, the user state         *)
(* accounts (positions), the external venue (Raydium) as a source of       *)
(* nondeterministic harvest and swap amounts, and the cluster clock.       *)
(* Every instruction is one atomic action: a failing instruction           *)
(* (an Err return or a panic of unwrap()) aborts the transaction, so only  *)
(* an instruction that reaches its final pack() calls changes the records. *)
(*                                                                         *)
(* The code's u64 is modelled as a WordBits-bit unsigned integer, its u128 *)
(* as a 2*WordBits-bit one, and its Q64.64 accumulator as a fixed point    *)
(* number with WordBits fractional bits, so that all values fit the model  *)
(* checker's integers while every checked_* / `as u64` keeps its meaning.  *)
(***************************************************************************)
EXTENDS Integers, FiniteSets, Sequences, TLC

(***************************************************************************)
(* Bounds of the model.                                                    *)
(***************************************************************************)
WordBits == 2        \* width standing for u64 (u128 is twice as wide)
MaxStrategies == 2   \* capacity of the per-strategy arrays
MaxUsers == 2        \* user state accounts of the largest deployment
MaxAccounts == 3     \* strategies plus user state accounts of a deployment
MaxTime == 32        \* the clock stops advancing here
MaxSupply == 1       \* deposit tokens the depositors own in total
MaxReward == 1       \* reward tokens (of either kind) the farm pays in total

(***************************************************************************)
(* Program constants.                                                      *)
(***************************************************************************)
SagaTimeout == 30    \* Duration::from_secs(30)
DustFloor == 20      \* dest_token_amount >= 20

AllStrategies == 0 .. (MaxStrategies - 1)
AllUsers == 1 .. MaxUsers
Signers == {"alice", "bob"}

\* The depositor and the strategy whose keys are the seeds of user state
\* account p (create_user_account).
Owner(p) == IF p % 2 = 1 THEN "alice" ELSE "bob"
SeedStrategy(p, strategies_len) == (p - 1) % strategies_len
NoKey == "default"   \* Pubkey::default(), the owner of a zeroed user account

RECURSIVE Pow2(_)
Pow2(n) == IF n = 0 THEN 1 ELSE 2 * Pow2(n - 1)

U64Max == Pow2(WordBits) - 1
U128Max == Pow2(2 * WordBits) - 1

(***************************************************************************)
(* Checked arithmetic.  None is the Option::None of checked_add and        *)
(* friends; unwrap() of None panics.                                       *)
(***************************************************************************)
None == -1

checked_add(a, b, max) ==
  IF a = None \/ b = None THEN None
  ELSE IF a + b > max THEN None ELSE a + b

checked_sub(a, b) ==
  IF a = None \/ b = None THEN None
  ELSE IF a < b THEN None ELSE a - b

checked_mul(a, b, max) ==
  IF a = None \/ b = None THEN None
  ELSE IF a * b > max THEN None ELSE a * b

checked_div(a, b) ==
  IF a = None \/ b = None THEN None
  ELSE IF b = 0 THEN None ELSE a \div b

\* checked_shl(64) / checked_shr(64) on a u128: None only when the shift
\* count is at least the width; bits shifted out are dropped.
checked_shl(a) ==
  IF a = None THEN None ELSE (a * Pow2(WordBits)) % (U128Max + 1)

checked_shr(a) ==
  IF a = None THEN None ELSE a \div Pow2(WordBits)

\* `x as u64` of a u128: keeps the low word.
as_u64(a) ==
  IF a = None THEN None ELSE a % (U64Max + 1)

VARIABLES
  gauntlet,        \* the Gauntlet record
  now,             \* Clock::get().unix_timestamp
  vault,           \* the Vault record
  vault_strategy,  \* the VaultStrategy record of the vault
  strategy,        \* the Strategy records, by strategy index
  users,           \* the User records, by user state account
  farm,            \* reward tokens the farm has still to pay
  wallet,          \* deposit tokens in the depositors' token accounts
  fee_call         \* the arguments and the result of a call of the fee engine

vars ==
  <<gauntlet, now, vault, vault_strategy, strategy, users, farm, wallet,
    fee_call>>

\* The accounts and the clock an instruction reads and writes, as one record.
Cur ==
  [gauntlet |-> gauntlet, now |-> now, vault |-> vault,
   vault_strategy |-> vault_strategy, strategy |-> strategy, users |-> users]

\* The registered strategies and the created user state accounts.
StrategiesOf(st) == 0 .. (st.gauntlet.strategies_len - 1)
Strategies == StrategiesOf(Cur)
Users == DOMAIN users

\* Fee schedules, accepted by Fees::validate, that the vault is created with.
FeeChoices ==
  { [performance_fee_numerator |-> 1, performance_fee_denominator |-> 2,
     withdrawal_fee_numerator |-> 1, withdrawal_fee_denominator |-> 2] }

\* A user state account as create_user_account leaves it: all bytes zero.
ZeroUser ==
  [is_initialized |-> FALSE, user |-> NoKey, strategy_account |-> -1,
   amount |-> 0, reward |-> 0, reward_debt |-> 0,
   user_status |-> 0, deadline |-> 0]

\* The vault after init_vault; has_reward_b is
\* reward_token_b_account # Pubkey::default().
InitVault(fees, has_b) ==
  [fees |-> fees,
   has_reward_b |-> has_b,
   total_deposit_amount |-> 0,
   deposit_amounts |-> [i \in AllStrategies |-> 0],
   reward_token_remain_amounts |-> [i \in AllStrategies |-> 0],
   reward_token_b_remain_amounts |-> [i \in AllStrategies |-> 0],
   usdc_token_amounts |-> [i \in AllStrategies |-> 0],
   accumulated_reward_per_shares |-> [i \in AllStrategies |-> 0]]

InitVaultStrategy ==
  [needs_usdc_pools |-> [i \in AllStrategies |-> FALSE],
   availabilities |-> [i \in AllStrategies |-> FALSE],
   strategy_token_amounts |-> [i \in AllStrategies |-> 0]]

InitStrategy ==
  [total_deposit_amount |-> 0, deposit_amounts |-> 0]

(***************************************************************************)
(* The fee engine, state.rs.                                               *)
(***************************************************************************)
\* Faulty variant of calculate_fee: no minimum fee of one token.
calculate_fee_NoMinimum(token_amount, fee_numerator, fee_denominator) ==
  IF fee_numerator = 0 \/ token_amount = 0 THEN 0
  ELSE checked_div(checked_mul(token_amount, fee_numerator, U128Max),
                   fee_denominator)

\* calculate_fee on u128 arguments; None is the Option's None.
calculate_fee(token_amount, fee_numerator, fee_denominator) ==
  IF fee_numerator = 0 \/ token_amount = 0 THEN 0
  ELSE LET fee == checked_div(checked_mul(token_amount, fee_numerator,
                                          U128Max),
                              fee_denominator)
       IN IF fee = 0 THEN 1 ELSE fee

\* No call of calculate_fee made.
NoCall ==
  [token_amount |-> 0, fee_numerator |-> 0, fee_denominator |-> 0,
   returned |-> FALSE, fee |-> 0]

\* The deployments: how many strategies init_strategy registered, how many
\* user state accounts create_user_account created, and whether init_vault
\* was given a second reward token account.  A vault with a second reward
\* token is explored with one depositor.
Deployments ==
  { d \in [strategies_len : 1 .. MaxStrategies, users_len : 1 .. MaxUsers,
           has_reward_b : BOOLEAN] :
      /\ d.strategies_len + d.users_len <= MaxAccounts
      /\ d.has_reward_b => d.users_len = 1 }

\* The state after init_gauntlet, init_vault, init_strategy and
\* create_user_account set up one of the deployments `deps`, with `supply`
\* deposit tokens in the depositors' wallets and a farm that pays `reward`.
InitOf(deps, feeset, supply, reward) ==
  /\ \E d \in deps, fees \in feeset :
       /\ gauntlet = [strategies_len |-> d.strategies_len]
       /\ users = [p \in 1 .. d.users_len |-> ZeroUser]
       /\ vault = InitVault(fees, d.has_reward_b)
  /\ now = 1
  /\ vault_strategy = InitVaultStrategy
  /\ strategy = [i \in AllStrategies |-> InitStrategy]
  /\ farm = reward
  /\ wallet = supply
  /\ fee_call = NoCall

Init == InitOf(Deployments, FeeChoices, MaxSupply, MaxReward)

(***************************************************************************)
(* The clock.                                                              *)
(***************************************************************************)
TickSteps == {SagaTimeout, SagaTimeout + 1}

Tick ==
  \E d \in TickSteps :
    /\ now + d <= MaxTime
    /\ now' = now + d
    /\ UNCHANGED <<gauntlet, vault, vault_strategy, strategy, users, farm, wallet,
                 fee_call>>

(***************************************************************************)
(* Outcome of a handler run on the accounts st: the error it returns       *)
(* ("Ok" for success, "Panic" for an unwrap() of None) and the accounts    *)
(* as its pack() calls leave them.                                         *)
(***************************************************************************)
Ok(st) == [err |-> "Ok", st |-> st]

Fail(st, e) == [err |-> e, st |-> st]

\* The transaction with outcome o: its writes are kept only when the
\* handler returned Ok.
Commit(o) ==
  /\ IF o.err = "Ok"
       THEN /\ vault' = o.st.vault
            /\ vault_strategy' = o.st.vault_strategy
            /\ strategy' = o.st.strategy
            /\ users' = o.st.users
       ELSE UNCHANGED <<vault, vault_strategy, strategy, users>>
  /\ UNCHANGED <<gauntlet, now>>

HasNone(f) == \E i \in DOMAIN f : f[i] = None

(***************************************************************************)
(* update_vault_strategy                                                   *)
(***************************************************************************)
\* Faulty variant of UpdatedTotal: disabling leaves the total as it is.
UpdatedTotal_AddOnly(total, deposit, availability) ==
  IF deposit > 0 /\ availability THEN checked_add(total, deposit, U64Max)
  ELSE total

\* total_deposit_amount after the availability of a strategy holding
\* `deposit` is set to `availability`.
UpdatedTotal(total, deposit, availability) ==
  IF deposit > 0
    THEN IF availability THEN checked_add(total, deposit, U64Max)
         ELSE checked_sub(total, deposit)
    ELSE total

\* Faulty variant of update_vault_strategy: the link record is packed
\* before the total is computed.
update_vault_strategy_PackFirst(st, signer, s, availability, needs_usdc_pool) ==
  IF signer # "admin" THEN Fail(st, "NotAdmin")
  ELSE
    LET vs1 == [st.vault_strategy EXCEPT
                  !.needs_usdc_pools[s] = needs_usdc_pool,
                  !.availabilities[s] = availability]
        total == UpdatedTotal(st.vault.total_deposit_amount,
                              st.vault.deposit_amounts[s], availability)
    IN IF total = None THEN Fail([st EXCEPT !.vault_strategy = vs1], "Panic")
       ELSE Ok([st EXCEPT !.vault.total_deposit_amount = total,
                          !.vault_strategy = vs1])

update_vault_strategy(st, signer, s, availability, needs_usdc_pool) ==
  IF signer # "admin" THEN Fail(st, "NotAdmin")
  ELSE
    LET vs1 == [st.vault_strategy EXCEPT
                  !.needs_usdc_pools[s] = needs_usdc_pool,
                  !.availabilities[s] = availability]
        total == UpdatedTotal(st.vault.total_deposit_amount,
                              st.vault.deposit_amounts[s], availability)
    IN IF total = None THEN Fail(st, "Panic")
       ELSE Ok([st EXCEPT !.vault.total_deposit_amount = total,
                          !.vault_strategy = vs1])

UpdateVaultStrategy ==
  \E signer \in {"admin", "alice"}, s \in Strategies,
     availability \in BOOLEAN, needs_usdc_pool \in BOOLEAN :
    /\ Commit(update_vault_strategy(Cur, signer, s, availability,
                                    needs_usdc_pool))
    /\ UNCHANGED <<farm, wallet, fee_call>>

(***************************************************************************)
(* harvest                                                                 *)
(***************************************************************************)
\* The part of a harvested amount that goes to strategy i.
HarvestShare(harvest_amount, v, i) ==
  as_u64(checked_div(checked_mul(harvest_amount, v.deposit_amounts[i], U128Max),
                     v.total_deposit_amount))

\* The remainders of one reward token after apportioning harvest_amount
\* over the first strategies_len strategies.
Apportion(remain, harvest_amount, v, vs, strategies_len) ==
  [i \in AllStrategies |->
     IF i < strategies_len /\ vs.availabilities[i]
       THEN checked_add(remain[i], HarvestShare(harvest_amount, v, i), U64Max)
       ELSE remain[i]]

\* _harvest: the vault after the farm paid h of the first and hb of the
\* second reward token (the second only on a vault that has one).
_harvest(v, vs, strategies_len, h, hb) ==
  IF v.has_reward_b
    THEN [v EXCEPT
            !.reward_token_remain_amounts =
               Apportion(v.reward_token_remain_amounts, h, v, vs,
                         strategies_len),
            !.reward_token_b_remain_amounts =
               Apportion(v.reward_token_b_remain_amounts, hb, v, vs,
                         strategies_len)]
    ELSE [v EXCEPT
            !.reward_token_remain_amounts =
               Apportion(v.reward_token_remain_amounts, h, v, vs,
                         strategies_len)]

\* Faulty variant of HarvestPulls: the farm is called and the reward
\* apportioned also on a vault that holds no deposit.
HarvestPulls_Always(v) == v.total_deposit_amount >= 0

\* Whether harvest calls the farm at all.
HarvestPulls(v) == v.total_deposit_amount > 0

\* Faulty variant of Harvested: the deadline of the last cycle is kept.
Harvested_StaleDeadline(u, t) == [u EXCEPT !.user_status = 1]

\* The user record harvest packs.
Harvested(u, t) ==
  [u EXCEPT !.user_status = 1, !.deadline = t + SagaTimeout]

harvest(st, p, h, hb) ==
  LET v1 == IF HarvestPulls(st.vault)
              THEN _harvest(st.vault, st.vault_strategy,
                            st.gauntlet.strategies_len, h, hb)
              ELSE st.vault
  IN IF HasNone(v1.reward_token_remain_amounts)
        \/ HasNone(v1.reward_token_b_remain_amounts)
       THEN Fail(st, "Panic")
       ELSE Ok([st EXCEPT !.vault = v1,
                          !.users[p] = Harvested(st.users[p], st.now)])

\* What the farm can pay to a harvest of the vault: (h, hb).
FarmPays(v, left) ==
  IF HarvestPulls(v)
    THEN { y \in (0 .. left) \X (0 .. left) :
             /\ y[1] + y[2] <= left
             /\ (~v.has_reward_b => y[2] = 0) }
    ELSE { <<0, 0>> }

Harvest ==
  \E p \in Users, y \in FarmPays(vault, farm) :
    LET o == harvest(Cur, p, y[1], y[2])
    IN /\ Commit(o)
       /\ farm' = IF o.err = "Ok" THEN farm - y[1] - y[2] ELSE farm
       /\ UNCHANGED <<wallet, fee_call>>

(***************************************************************************)
(* The venue's swap as Processor::raydium_swap calls it.  `quoted` is the  *)
(* destination amount the handler computes from the pool balances; the     *)
(* venue is called only when it reaches the dust floor, and then pays      *)
(* amount_in divided by the pool's rate.                                   *)
(***************************************************************************)
Venue == [quoted : {DustFloor - 1, DustFloor}, rate : {1, 2}]

\* Faulty variant of SwapExecuted: the venue is called at any quote.
SwapExecuted_Always(quoted) == quoted >= 0

SwapExecuted(quoted) == quoted >= DustFloor

raydium_swap(amount_in, pool) ==
  IF SwapExecuted(pool.quoted) THEN amount_in \div pool.rate ELSE 0

\* Faulty variant of RequiredStatus: the second reward token is converted
\* at the status of the first.
RequiredStatus_First(second_reward_token) == 1

\* The status a reward conversion requires of the position.
RequiredStatus(second_reward_token) ==
  IF second_reward_token THEN 2 ELSE 1

\* Faulty variant of TimedOut: a step one second past the deadline passes.
TimedOut_Late(t, u) == t > u.deadline + 1

\* Faulty variant of TimedOut: a step at the deadline itself is late.
TimedOut_Strict(t, u) == t >= u.deadline

\* The deadline check of every step but harvest.
TimedOut(t, u) == t > u.deadline

\* Faulty variant of Crystallize: the share of this conversion replaces the
\* accumulator instead of being added to it.
Crystallize_Assign(acc, swap_amount, deposit) ==
  checked_div(checked_shl(swap_amount), deposit)

\* accumulated_reward_per_share after swap_amount is distributed over deposit.
Crystallize(acc, swap_amount, deposit) ==
  checked_add(acc, checked_div(checked_shl(swap_amount), deposit), U128Max)

RewardRemain(v, s, second_reward_token) ==
  IF second_reward_token THEN v.reward_token_b_remain_amounts[s]
  ELSE v.reward_token_remain_amounts[s]

\* Faulty variant of ZeroRemain: the remainder is kept.
ZeroRemain_Keep(v, s, second_reward_token) == v

\* The vault with the remainder of the converted reward token zeroed.
ZeroRemain(v, s, second_reward_token) ==
  IF second_reward_token
    THEN [v EXCEPT !.reward_token_b_remain_amounts[s] = 0]
    ELSE [v EXCEPT !.reward_token_remain_amounts[s] = 0]

(***************************************************************************)
(* swap_farm_reward_to_usdc                                                *)
(***************************************************************************)
_swap_farm_token_to_usdc(st, s, second_reward_token, pool) ==
  LET v == st.vault
      remain == RewardRemain(v, s, second_reward_token)
      swap_amount == raydium_swap(remain, pool)
  IN IF remain > 0
       THEN [st EXCEPT !.vault =
               [ZeroRemain(v, s, second_reward_token) EXCEPT
                  !.usdc_token_amounts[s] =
                     checked_add(v.usdc_token_amounts[s], as_u64(swap_amount),
                                 U64Max)]]
       ELSE st

\* Faulty variant of UsdcNextStatus: one status forward whatever the vault.
UsdcNextStatus_Step(v, status) == status + 1

\* The status after a conversion into the settlement asset.
UsdcNextStatus(v, status) ==
  IF ~v.has_reward_b THEN status + 2 ELSE status + 1

swap_farm_reward_to_usdc(st, p, s, second_reward_token, pool) ==
  LET u == st.users[p] IN
  IF st.vault_strategy.needs_usdc_pools[s] = FALSE
    THEN Fail(st, "WrongVaultStrategyStateAccount")
  ELSE IF u.user_status # RequiredStatus(second_reward_token)
    THEN Fail(st, "UserStatusError")
  ELSE IF TimedOut(st.now, u) THEN Fail(st, "TimeoutError")
  ELSE
    LET st1 == IF st.vault_strategy.availabilities[s]
                 THEN _swap_farm_token_to_usdc(st, s, second_reward_token, pool)
                 ELSE st
        u1 == [u EXCEPT !.user_status = UsdcNextStatus(st.vault, u.user_status),
                        !.deadline = st.now + SagaTimeout]
    IN IF HasNone(st1.vault.usdc_token_amounts) THEN Fail(st, "Panic")
       ELSE Ok([st1 EXCEPT !.users[p] = u1])

SwapFarmRewardToUsdc ==
  \E p \in Users, s \in Strategies, second \in BOOLEAN, pool \in Venue :
    /\ Commit(swap_farm_reward_to_usdc(Cur, p, s, second, pool))
    /\ UNCHANGED <<farm, wallet, fee_call>>

(***************************************************************************)
(* swap_usdc_to_strategy_token                                             *)
(***************************************************************************)
\* Faulty variant of Reinvest: the performance fee is taken off what goes
\* into the accumulator.
Reinvest_Net(st, s, swap_amount) ==
  [st EXCEPT
     !.vault.accumulated_reward_per_shares[s] =
        Crystallize(st.vault.accumulated_reward_per_shares[s],
                    checked_sub(swap_amount,
                                calculate_fee(swap_amount,
                                  st.vault.fees.performance_fee_numerator,
                                  st.vault.fees.performance_fee_denominator)),
                    st.vault.deposit_amounts[s]),
     !.strategy[s].total_deposit_amount =
        checked_add(st.strategy[s].total_deposit_amount, as_u64(swap_amount),
                    U64Max),
     !.strategy[s].deposit_amounts =
        checked_add(st.strategy[s].deposit_amounts, as_u64(swap_amount),
                    U64Max),
     !.vault_strategy.strategy_token_amounts[s] =
        checked_add(st.vault_strategy.strategy_token_amounts[s],
                    as_u64(swap_amount), U64Max)]

\* The accounts after swap_amount of the target asset arrived for strategy
\* s of the vault.
Reinvest(st, s, swap_amount) ==
  [st EXCEPT
     !.vault.accumulated_reward_per_shares[s] =
        Crystallize(st.vault.accumulated_reward_per_shares[s], swap_amount,
                    st.vault.deposit_amounts[s]),
     !.strategy[s].total_deposit_amount =
        checked_add(st.strategy[s].total_deposit_amount, as_u64(swap_amount),
                    U64Max),
     !.strategy[s].deposit_amounts =
        checked_add(st.strategy[s].deposit_amounts, as_u64(swap_amount),
                    U64Max),
     !.vault_strategy.strategy_token_amounts[s] =
        checked_add(st.vault_strategy.strategy_token_amounts[s],
                    as_u64(swap_amount), U64Max)]

ReinvestPanics(st, s) ==
  \/ st.vault.accumulated_reward_per_shares[s] = None
  \/ st.vault.usdc_token_amounts[s] = None
  \/ st.vault_strategy.strategy_token_amounts[s] = None
  \/ st.strategy[s].total_deposit_amount = None
  \/ st.strategy[s].deposit_amounts = None

\* Faulty variant of _swap_usdc_to_strategy_token: the settlement asset
\* that was swapped stays in the remainder.
_swap_usdc_to_strategy_token_Keep(st, s, pool) ==
  IF st.vault.usdc_token_amounts[s] > 0
    THEN Reinvest(st, s, raydium_swap(st.vault.usdc_token_amounts[s], pool))
    ELSE st

_swap_usdc_to_strategy_token(st, s, pool) ==
  LET available_usdc_amount == st.vault.usdc_token_amounts[s]
      swaped_usdc_amount == IF SwapExecuted(pool.quoted)
                              THEN available_usdc_amount ELSE 0
      swap_amount == raydium_swap(available_usdc_amount, pool)
  IN IF available_usdc_amount > 0
       THEN Reinvest([st EXCEPT !.vault.usdc_token_amounts[s] =
                        checked_sub(available_usdc_amount, swaped_usdc_amount)],
                     s, swap_amount)
       ELSE st

\* Faulty variant of ConvertsToTarget: the vault deposit is not looked at.
ConvertsToTarget_Unguarded(st, s) == st.vault_strategy.availabilities[s]

\* Whether a conversion into the target asset calls the swap helper.
ConvertsToTarget(st, s) ==
  st.vault_strategy.availabilities[s] /\ st.vault.deposit_amounts[s] # 0

swap_usdc_to_strategy_token(st, p, s, pool) ==
  LET u == st.users[p] IN
  IF st.vault_strategy.needs_usdc_pools[s] = FALSE
    THEN Fail(st, "WrongVaultStrategyStateAccount")
  ELSE IF u.user_status # 3 THEN Fail(st, "UserStatusError")
  ELSE IF TimedOut(st.now, u) THEN Fail(st, "TimeoutError")
  ELSE
    LET st1 == IF ConvertsToTarget(st, s)
                 THEN _swap_usdc_to_strategy_token(st, s, pool)
                 ELSE st
        u1 == [u EXCEPT !.user_status = u.user_status + 1,
                        !.deadline = st.now + SagaTimeout]
    IN IF ReinvestPanics(st1, s) THEN Fail(st, "Panic")
       ELSE Ok([st1 EXCEPT !.users[p] = u1])

SwapUsdcToStrategyToken ==
  \E p \in Users, s \in Strategies, pool \in Venue :
    /\ Commit(swap_usdc_to_strategy_token(Cur, p, s, pool))
    /\ UNCHANGED <<farm, wallet, fee_call>>

(***************************************************************************)
(* swap_reward_to_strategy_token                                           *)
(***************************************************************************)
_swap_reward_to_strategy_token(st, s, second_reward_token, pool) ==
  LET remain == RewardRemain(st.vault, s, second_reward_token)
      swap_amount == raydium_swap(remain, pool)
  IN IF remain > 0
       THEN Reinvest([st EXCEPT !.vault =
                        ZeroRemain(st.vault, s, second_reward_token)],
                     s, swap_amount)
       ELSE st

\* Faulty variant of DirectNextStatus: one status forward whatever the
\* vault and the token.
DirectNextStatus_Step(v, second_reward_token, status) == status + 1

\* Faulty variant of DirectNextStatus: without a second reward token the
\* status is moved 4 forward instead of being set to 4.
DirectNextStatus_Add(v, second_reward_token, status) ==
  IF ~v.has_reward_b THEN status + 4
  ELSE IF second_reward_token THEN 4
  ELSE status + 1

\* The status after a direct conversion into the target asset.
DirectNextStatus(v, second_reward_token, status) ==
  IF ~v.has_reward_b THEN 4
  ELSE IF second_reward_token THEN 4
  ELSE status + 1

swap_reward_to_strategy_token(st, p, s, second_reward_token, pool) ==
  LET u == st.users[p] IN
  IF st.vault_strategy.needs_usdc_pools[s] = TRUE
    THEN Fail(st, "WrongVaultStrategyStateAccount")
  ELSE IF u.user_status # RequiredStatus(second_reward_token)
    THEN Fail(st, "UserStatusError")
  ELSE IF TimedOut(st.now, u) THEN Fail(st, "TimeoutError")
  ELSE
    LET st1 == IF ConvertsToTarget(st, s)
                 THEN _swap_reward_to_strategy_token(st, s, second_reward_token,
                                                     pool)
                 ELSE st
        u1 == [u EXCEPT !.user_status =
                          DirectNextStatus(st.vault, second_reward_token,
                                           u.user_status),
                        !.deadline = st.now + SagaTimeout]
    IN IF ReinvestPanics(st1, s) THEN Fail(st, "Panic")
       ELSE Ok([st1 EXCEPT !.users[p] = u1])

SwapRewardToStrategyToken ==
  \E p \in Users, s \in Strategies, second \in BOOLEAN, pool \in Venue :
    /\ Commit(swap_reward_to_strategy_token(Cur, p, s, second, pool))
    /\ UNCHANGED <<farm, wallet, fee_call>>

(***************************************************************************)
(* deposit                                                                 *)
(***************************************************************************)
\* Faulty variant of Entitlement: the product is not shifted down.
Entitlement_Unscaled(amount, acc) ==
  as_u64(checked_mul(amount, acc, U128Max))

\* The reward a position of `amount` has earned at accumulator value acc.
Entitlement(amount, acc) ==
  as_u64(checked_shr(checked_mul(amount, acc, U128Max)))

\* Faulty variant of Settle: the whole entitlement is added, not what has
\* accrued since reward_debt was taken.
Settle_Gross(u, acc) ==
  IF u.amount > 0
    THEN [u EXCEPT !.reward =
            checked_add(u.reward, Entitlement(u.amount, acc), U64Max)]
    ELSE u

\* The user record after its pending reward is moved into `reward`.
Settle(u, acc) ==
  IF u.amount > 0
    THEN [u EXCEPT !.reward =
            checked_add(u.reward,
                        checked_sub(Entitlement(u.amount, acc), u.reward_debt),
                        U64Max)]
    ELSE u

ReadyStatus == 4

\* Faulty variant of NotReady: also lets a position through whose cycle has
\* one conversion left.
NotReady_Lax(u) == u.user_status < ReadyStatus - 1

\* The status check of deposit and of withdraw.
NotReady(u) == u.user_status # ReadyStatus

\* Faulty variant of LazyInit: a record that is not initialized is also
\* taken to have completed a cycle.
LazyInit_Ready(u, signer, s) ==
  IF ~u.is_initialized
    THEN [u EXCEPT !.is_initialized = TRUE, !.user = signer,
                   !.strategy_account = s, !.amount = 0,
                   !.user_status = ReadyStatus]
    ELSE u

\* The user record deposit works on: a record that is not initialized is
\* bound to the depositor and the strategy account passed.
LazyInit(u, signer, s) ==
  IF ~u.is_initialized
    THEN [u EXCEPT !.is_initialized = TRUE, !.user = signer,
                   !.strategy_account = s, !.amount = 0]
    ELSE u

\* Faulty variant of DepositGate: the position's status and deadline are
\* looked at before the strategy's availability.
DepositGate_StatusFirst(st, u, s) ==
  IF NotReady(u) THEN "UserStatusError"
  ELSE IF TimedOut(st.now, u) THEN "TimeoutError"
  ELSE IF ~st.vault_strategy.availabilities[s] THEN "InvalidStatusStrategy"
  ELSE "Ok"

\* The checks of deposit that follow the account checks, in their order.
DepositGate(st, u, s) ==
  IF ~st.vault_strategy.availabilities[s] THEN "InvalidStatusStrategy"
  ELSE IF NotReady(u) THEN "UserStatusError"
  ELSE IF TimedOut(st.now, u) THEN "TimeoutError"
  ELSE "Ok"

deposit(st, signer, p, s, amount) ==
  LET u0 == LazyInit(st.users[p], signer, s)
      v == st.vault
      acc == v.accumulated_reward_per_shares[s]
  IN
  IF signer # u0.user THEN Fail(st, "WrongUserAccount")
  ELSE IF s # u0.strategy_account THEN Fail(st, "WrongUserAccount")
  ELSE IF DepositGate(st, u0, s) # "Ok"
    THEN Fail(st, DepositGate(st, u0, s))
  ELSE
    LET u1 == Settle(u0, acc)
        u2 == IF amount > 0
                THEN [u1 EXCEPT !.amount = checked_add(u1.amount, amount, U64Max)]
                ELSE u1
        v1 == IF amount > 0
                THEN [v EXCEPT
                        !.total_deposit_amount =
                           checked_add(v.total_deposit_amount, amount, U64Max),
                        !.deposit_amounts[s] =
                           checked_add(v.deposit_amounts[s], amount, U64Max)]
                ELSE v
        debt == Entitlement(u2.amount, acc)
        u3 == [u2 EXCEPT !.reward_debt = debt, !.user_status = 0]
    IN IF \/ u1.reward = None \/ u2.amount = None \/ debt = None
          \/ v1.total_deposit_amount = None \/ v1.deposit_amounts[s] = None
         THEN Fail(st, "Panic")
         ELSE Ok([st EXCEPT !.vault = v1, !.users[p] = u3])

\* A user state account lives at the address derived from the depositor
\* and the strategy, so the first deposit into it comes with those keys.
\* The deposit tokens leave the depositor's token account.
Deposit ==
  \E signer \in Signers, p \in Users, s \in Strategies,
     amount \in 0 .. MaxSupply :
    /\ amount <= wallet
    /\ \/ users[p].is_initialized
       \/ /\ signer = Owner(p)
          /\ s = SeedStrategy(p, gauntlet.strategies_len)
    /\ LET o == deposit(Cur, signer, p, s, amount)
       IN /\ Commit(o)
          /\ wallet' = IF o.err = "Ok" THEN wallet - amount ELSE wallet
    /\ UNCHANGED <<farm, fee_call>>

(***************************************************************************)
(* withdraw                                                                *)
(***************************************************************************)
\* The fee withdraw takes of `amount`.
WithdrawFee(amount, numerator, denominator) ==
  as_u64(checked_div(checked_mul(amount, numerator, U128Max), denominator))

\* The reward leg of withdraw: the whole settled reward of u leaves.
WithdrawReward(st, u, s) ==
  LET reward_amount == u.reward
      withdraw_amount ==
        as_u64(checked_div(checked_mul(st.strategy[s].deposit_amounts,
                                       reward_amount, U128Max),
                           st.vault_strategy.strategy_token_amounts[s]))
      fee == WithdrawFee(withdraw_amount,
                         st.vault.fees.performance_fee_numerator,
                         st.vault.fees.performance_fee_denominator)
  IN [deposit_amounts |->
        checked_sub(st.strategy[s].deposit_amounts, reward_amount),
      reward |-> checked_sub(u.reward, reward_amount),
      strategy_token_amounts |->
        checked_sub(st.vault_strategy.strategy_token_amounts[s], reward_amount),
      fee |-> fee,
      paid |-> checked_sub(withdraw_amount, fee)]

\* Faulty variant of WithdrawPrincipal: the vault's total is not lowered.
WithdrawPrincipal_KeepTotal(v, u, s, amount) ==
  LET fee == WithdrawFee(amount, v.fees.withdrawal_fee_numerator,
                         v.fees.withdrawal_fee_denominator)
  IN [amount |-> checked_sub(u.amount, amount),
      deposit_amounts |-> checked_sub(v.deposit_amounts[s], amount),
      total_deposit_amount |-> v.total_deposit_amount,
      fee |-> fee,
      paid |-> checked_sub(amount, fee)]

\* Faulty variant of WithdrawPrincipal: the strategy's deposit in the vault
\* is not lowered.
WithdrawPrincipal_KeepDeposit(v, u, s, amount) ==
  LET fee == WithdrawFee(amount, v.fees.withdrawal_fee_numerator,
                         v.fees.withdrawal_fee_denominator)
  IN [amount |-> checked_sub(u.amount, amount),
      deposit_amounts |-> v.deposit_amounts[s],
      total_deposit_amount |-> checked_sub(v.total_deposit_amount, amount),
      fee |-> fee,
      paid |-> checked_sub(amount, fee)]

\* The principal leg of withdraw.
WithdrawPrincipal(v, u, s, amount) ==
  LET fee == WithdrawFee(amount, v.fees.withdrawal_fee_numerator,
                         v.fees.withdrawal_fee_denominator)
  IN [amount |-> checked_sub(u.amount, amount),
      deposit_amounts |-> checked_sub(v.deposit_amounts[s], amount),
      total_deposit_amount |-> checked_sub(v.total_deposit_amount, amount),
      fee |-> fee,
      paid |-> checked_sub(amount, fee)]

\* Faulty variant of InsufficientBalance: the comparison the other way
\* round.
InsufficientBalance_Reversed(u, amount) == u.amount > amount

\* The amount check of withdraw.
InsufficientBalance(u, amount) == u.amount < amount

withdraw(st, signer, p, s, amount, reward_amount) ==
  LET u == st.users[p]
      v == st.vault
      acc == v.accumulated_reward_per_shares[s]
  IN
  IF ~u.is_initialized THEN Fail(st, "UninitializedAccount")
  ELSE IF signer # u.user THEN Fail(st, "WrongUserAccount")
  ELSE IF s # u.strategy_account THEN Fail(st, "WrongUserAccount")
  ELSE IF NotReady(u) THEN Fail(st, "UserStatusError")
  ELSE IF TimedOut(st.now, u) THEN Fail(st, "TimeoutError")
  ELSE IF InsufficientBalance(u, amount)
    THEN Fail(st, "InvalidWithdrawAmount")
  ELSE
    LET u1 == Settle(u, acc) IN
    IF u1.reward = None THEN Fail(st, "Panic")
    ELSE IF u1.reward < reward_amount THEN Fail(st, "InvalidWithdrawAmount")
    ELSE
      LET r == WithdrawReward(st, u1, s)
          st1 == IF reward_amount > 0
                   THEN [st EXCEPT
                           !.strategy[s].deposit_amounts = r.deposit_amounts,
                           !.vault_strategy.strategy_token_amounts[s] =
                              r.strategy_token_amounts]
                   ELSE st
          u2 == IF reward_amount > 0 THEN [u1 EXCEPT !.reward = r.reward]
                ELSE u1
          w == WithdrawPrincipal(v, u2, s, amount)
          v1 == IF amount > 0
                  THEN [v EXCEPT !.deposit_amounts[s] = w.deposit_amounts,
                                 !.total_deposit_amount = w.total_deposit_amount]
                  ELSE v
          u3 == IF amount > 0 THEN [u2 EXCEPT !.amount = w.amount] ELSE u2
          debt == Entitlement(u3.amount, acc)
          u4 == [u3 EXCEPT !.reward_debt = debt, !.user_status = 0]
      IN IF \/ (reward_amount > 0 /\
                  (\/ r.deposit_amounts = None \/ r.reward = None
                   \/ r.strategy_token_amounts = None \/ r.fee = None
                   \/ r.paid = None))
            \/ (amount > 0 /\
                  (\/ w.amount = None \/ w.deposit_amounts = None
                   \/ w.total_deposit_amount = None \/ w.fee = None
                   \/ w.paid = None))
            \/ debt = None
           THEN Fail(st, "Panic")
           ELSE Ok([st1 EXCEPT !.vault = v1, !.users[p] = u4])

Withdraw ==
  \E signer \in Signers, p \in Users, s \in Strategies,
     amount \in 0 .. MaxSupply, reward_amount \in 0 .. MaxReward :
    /\ LET o == withdraw(Cur, signer, p, s, amount, reward_amount)
           w == WithdrawPrincipal(vault, users[p], s, amount)
       IN /\ Commit(o)
          /\ wallet' = IF o.err = "Ok" /\ amount > 0
                         THEN wallet + w.paid ELSE wallet
    /\ UNCHANGED <<farm, fee_call>>

Next ==
  \/ Tick
  \/ UpdateVaultStrategy
  \/ Harvest
  \/ SwapFarmRewardToUsdc
  \/ SwapUsdcToStrategyToken
  \/ SwapRewardToStrategyToken
  \/ Deposit
  \/ Withdraw

Spec == Init /\ [][Next]_vars

(***************************************************************************)
(* Properties.                                                             *)
(*                                                                         *)
(* A property about an instruction is stated on the handler's outcome in   *)
(* every reachable state and for every input: the outcome's error and the  *)
(* accounts it would leave.                                                *)
(***************************************************************************)
Seed(p) == SeedStrategy(p, gauntlet.strategies_len)

\* The three unconverted remainders of strategy i are zero.
RemaindersZero(v, i) ==
  /\ v.reward_token_remain_amounts[i] = 0
  /\ v.reward_token_b_remain_amounts[i] = 0
  /\ v.usdc_token_amounts[i] = 0

\* C1 (as amended): Deposit and Withdraw succeed only at status Ready(4).
\* At any other status they fail and leave every record unchanged; the error
\* is UserStatusError once the checks that come first have passed (the signer
\* and the strategy are the position's, and for Deposit the strategy is
\* enabled, for Withdraw the position is initialized).  A success resets the
\* status to Idle(0).
C1_ReadyOnly ==
  \A signer \in Signers, p \in Users, s \in Strategies, amount \in 0 .. MaxSupply :
    LET u0 == LazyInit(users[p], signer, s)
        d == deposit(Cur, signer, p, s, amount)
    IN /\ users[p].user_status # 4 =>
            /\ d.err \in {"WrongUserAccount", "InvalidStatusStrategy",
                          "UserStatusError"}
            /\ d.st = Cur
            /\ (signer = u0.user /\ s = u0.strategy_account
                  /\ vault_strategy.availabilities[s])
                 => d.err = "UserStatusError"
       /\ d.err = "Ok" =>
            users[p].user_status = 4 /\ d.st.users[p].user_status = 0
       /\ \A reward_amount \in 0 .. MaxReward :
            LET w == withdraw(Cur, signer, p, s, amount, reward_amount)
            IN /\ users[p].user_status # 4 =>
                    /\ w.err \in {"UninitializedAccount", "WrongUserAccount",
                                  "UserStatusError"}
                    /\ w.st = Cur
                    /\ (users[p].is_initialized /\ signer = users[p].user
                          /\ s = users[p].strategy_account)
                         => w.err = "UserStatusError"
               /\ w.err = "Ok" =>
                    users[p].user_status = 4 /\ w.st.users[p].user_status = 0

\* A position that holds a deposit has completed a further cycle, and both
\* a Deposit and a Withdraw of it succeed and reset it to Idle(0); another
\* request on it is then refused with UserStatusError.
C1_Witness ==
  \E p \in Users :
    LET d == deposit(Cur, Owner(p), p, Seed(p), 0)
        w == withdraw(Cur, Owner(p), p, Seed(p), 1, 0)
    IN /\ users[p].amount > 0
       /\ users[p].user_status = 4
       /\ d.err = "Ok" /\ d.st.users[p].user_status = 0
       /\ w.err = "Ok" /\ w.st.users[p].user_status = 0
       /\ deposit(d.st, Owner(p), p, Seed(p), 0).err = "UserStatusError"
       /\ withdraw(w.st, Owner(p), p, Seed(p), 0, 0).err = "UserStatusError"

\* C1 as stated: at every status other than Ready(4) a Deposit, and a
\* Withdraw of an initialized position, by the position's owner fails with
\* UserStatusError.
C1_AsStated ==
  \A p \in Users, amount \in 0 .. MaxSupply :
    users[p].user_status # 4 =>
      /\ deposit(Cur, Owner(p), p, Seed(p), amount).err = "UserStatusError"
      /\ users[p].is_initialized =>
           withdraw(Cur, Owner(p), p, Seed(p), amount, 0).err = "UserStatusError"

\* C2 (as amended): a first Deposit on an uninitialized position is not
\* implicitly Ready.  While the position's status is not Ready(4), as it is
\* right after the account is created, the Deposit fails and changes
\* nothing.  Once Harvest and the conversions have brought the uninitialized
\* position to Ready(4), a Deposit within the deadline into an enabled
\* strategy succeeds unless a deposit total overflows, binds the position to
\* the depositor and the strategy, credits the amount and resets the status.
C2_FirstDeposit ==
  \A p \in Users, amount \in 0 .. MaxSupply :
    LET s == Seed(p)
        d == deposit(Cur, Owner(p), p, s, amount)
        overflow ==
          amount > 0 /\
            (\/ vault.total_deposit_amount + amount > U64Max
             \/ vault.deposit_amounts[s] + amount > U64Max)
    IN ~users[p].is_initialized =>
         /\ users[p].user_status # 4 => d.err # "Ok" /\ d.st = Cur
         /\ (users[p].user_status = 4 /\ now <= users[p].deadline
               /\ vault_strategy.availabilities[s] /\ ~overflow) =>
              /\ d.err = "Ok"
              /\ d.st.users[p] =
                   [users[p] EXCEPT !.is_initialized = TRUE,
                                    !.user = Owner(p),
                                    !.strategy_account = s,
                                    !.amount = amount,
                                    !.reward_debt =
                                       Entitlement(amount,
                                         vault.accumulated_reward_per_shares[s]),
                                    !.user_status = 0]
              /\ d.st.vault.deposit_amounts[s] =
                   vault.deposit_amounts[s] + amount

\* An uninitialized position that Harvest and a conversion have brought to
\* Ready(4), whose first Deposit succeeds and credits the amount.
C2_Witness ==
  \E p \in Users :
    LET d == deposit(Cur, Owner(p), p, Seed(p), 1)
    IN /\ ~users[p].is_initialized
       /\ users[p].user_status = 4
       /\ d.err = "Ok"
       /\ d.st.users[p].is_initialized
       /\ d.st.users[p].amount = 1

\* C2 as stated: a first Deposit on a position as create_user_account
\* leaves it (status 0, deadline 0) into an enabled strategy succeeds.
C2_AsStated ==
  \A p \in Users, amount \in 0 .. MaxSupply :
    (/\ ~users[p].is_initialized
     /\ users[p].user_status = 0
     /\ users[p].deadline = 0
     /\ vault_strategy.availabilities[Seed(p)])
      => deposit(Cur, Owner(p), p, Seed(p), amount).err = "Ok"

\* C3: whenever a Deposit or a Withdraw on strategy s succeeds, the three
\* unconverted remainders of s (first reward token, second reward token,
\* settlement asset) are zero.
C3_NoHalfConverted ==
  \A signer \in Signers, p \in Users, s \in Strategies,
     amount \in 0 .. MaxSupply, reward_amount \in 0 .. MaxReward :
    (\/ deposit(Cur, signer, p, s, amount).err = "Ok"
     \/ withdraw(Cur, signer, p, s, amount, reward_amount).err = "Ok")
      => RemaindersZero(vault, s)

\* C4: a reward conversion, direct or into the settlement asset, on the
\* path the strategy is configured for requires status Harvested(1) for the
\* first reward token and PrimaryConverted(2) for the second.  At any other
\* status, Idle(0) before any Harvest included, it fails with UserStatusError
\* (on the path the strategy is not configured for it fails as well) and
\* changes nothing.
C4_ConvertRequiresStatus ==
  \A p \in Users, s \in Strategies, second \in BOOLEAN, pool \in Venue :
    LET req == IF second THEN 2 ELSE 1
        f == swap_farm_reward_to_usdc(Cur, p, s, second, pool)
        r == swap_reward_to_strategy_token(Cur, p, s, second, pool)
        needs == vault_strategy.needs_usdc_pools[s]
    IN /\ users[p].user_status # req =>
            /\ f.err = IF needs THEN "UserStatusError"
                       ELSE "WrongVaultStrategyStateAccount"
            /\ r.err = IF needs THEN "WrongVaultStrategyStateAccount"
                       ELSE "UserStatusError"
            /\ f.st = Cur /\ r.st = Cur
       /\ f.err = "Ok" => users[p].user_status = req
       /\ r.err = "Ok" => users[p].user_status = req

\* A position at PrimaryConverted(2) for which the conversion of the first
\* reward token is refused and that of the second accepted, and a position
\* that never harvested for which the conversion is refused.
C4_Witness ==
  \E p \in Users, s \in Strategies, pool \in Venue :
    LET c(second) == IF vault_strategy.needs_usdc_pools[s]
                       THEN swap_farm_reward_to_usdc(Cur, p, s, second, pool)
                       ELSE swap_reward_to_strategy_token(Cur, p, s, second, pool)
    IN /\ users[p].user_status = 2
       /\ c(FALSE).err = "UserStatusError"
       /\ c(TRUE).err = "Ok"
       /\ c(TRUE).st.users[p].user_status > 2

\* C5 (as amended): every step other than Harvest (the reward conversions,
\* the conversion of the settlement asset, Deposit, Withdraw) attempted with
\* now > deadline fails and leaves every record unchanged; the error is
\* TimeoutError when the checks that come first have passed, the status
\* check among them.  Harvest does not look at the deadline: it succeeds and
\* restarts the cycle.
C5_PastDeadline ==
  \A p \in Users :
    now > users[p].deadline =>
      /\ \A s \in Strategies, second \in BOOLEAN, pool \in Venue :
           LET req == IF second THEN 2 ELSE 1
               needs == vault_strategy.needs_usdc_pools[s]
               f == swap_farm_reward_to_usdc(Cur, p, s, second, pool)
               r == swap_reward_to_strategy_token(Cur, p, s, second, pool)
               t == swap_usdc_to_strategy_token(Cur, p, s, pool)
           IN /\ f.err # "Ok" /\ r.err # "Ok" /\ t.err # "Ok"
              /\ f.st = Cur /\ r.st = Cur /\ t.st = Cur
              /\ (needs /\ users[p].user_status = req)
                   => f.err = "TimeoutError"
              /\ (~needs /\ users[p].user_status = req)
                   => r.err = "TimeoutError"
              /\ (needs /\ users[p].user_status = 3)
                   => t.err = "TimeoutError"
      /\ \A signer \in Signers, s \in Strategies, amount \in 0 .. MaxSupply :
           LET u0 == LazyInit(users[p], signer, s)
               d == deposit(Cur, signer, p, s, amount)
           IN /\ d.err # "Ok" /\ d.st = Cur
              /\ (signer = u0.user /\ s = u0.strategy_account
                    /\ vault_strategy.availabilities[s]
                    /\ users[p].user_status = 4)
                   => d.err = "TimeoutError"
              /\ \A reward_amount \in 0 .. MaxReward :
                   LET w == withdraw(Cur, signer, p, s, amount, reward_amount)
                   IN /\ w.err # "Ok" /\ w.st = Cur
                      /\ (users[p].is_initialized /\ signer = users[p].user
                            /\ s = users[p].strategy_account
                            /\ users[p].user_status = 4)
                           => w.err = "TimeoutError"
      /\ \A y \in FarmPays(vault, farm) :
           LET h == harvest(Cur, p, y[1], y[2])
           IN h.err = "Ok" => h.st.users[p].user_status = 1

\* A position that holds a deposit and reached Ready(4), and whose deadline
\* has passed: its Deposit and its Withdraw fail with TimeoutError, its
\* Harvest succeeds.
C5_Witness ==
  \E p \in Users :
    /\ users[p].amount > 0
    /\ users[p].user_status = 4
    /\ now > users[p].deadline
    /\ deposit(Cur, Owner(p), p, Seed(p), 0).err = "TimeoutError"
    /\ withdraw(Cur, Owner(p), p, Seed(p), 1, 0).err = "TimeoutError"
    /\ harvest(Cur, p, 0, 0).err = "Ok"

\* C5 as stated: every step, Harvest included, attempted with
\* now > deadline fails with TimeoutError.
C5_AsStated ==
  \A p \in Users :
    now > users[p].deadline =>
      /\ \A y \in FarmPays(vault, farm) :
           harvest(Cur, p, y[1], y[2]).err = "TimeoutError"
      /\ \A s \in Strategies, second \in BOOLEAN, pool \in Venue :
           /\ vault_strategy.needs_usdc_pools[s] =>
                /\ swap_farm_reward_to_usdc(Cur, p, s, second, pool).err
                     = "TimeoutError"
                /\ swap_usdc_to_strategy_token(Cur, p, s, pool).err
                     = "TimeoutError"
           /\ ~vault_strategy.needs_usdc_pools[s] =>
                swap_reward_to_strategy_token(Cur, p, s, second, pool).err
                  = "TimeoutError"
      /\ \A amount \in 0 .. MaxSupply :
           /\ vault_strategy.availabilities[Seed(p)] =>
                deposit(Cur, Owner(p), p, Seed(p), amount).err = "TimeoutError"
           /\ users[p].is_initialized =>
                withdraw(Cur, Owner(p), p, Seed(p), amount, 0).err
                  = "TimeoutError"

\* C6: Harvest is allowed at every status and whatever the deadline: it
\* fails only when apportioning overflows, and otherwise sets the position
\* to Harvested(1) with deadline now + 30 and leaves the rest of the
\* position alone.  It apportions what the farm paid over the enabled
\* strategies, in proportion to their deposits, only when
\* total_deposit_amount > 0; when it is 0 the vault is unchanged.
C6_HarvestAlways ==
  \A p \in Users, y \in FarmPays(vault, farm) :
    LET h == harvest(Cur, p, y[1], y[2])
        share(x, i) == (x * vault.deposit_amounts[i])
                          \div vault.total_deposit_amount
        gets(i) == i \in Strategies /\ vault_strategy.availabilities[i]
    IN /\ h.err \in {"Ok", "Panic"}
       /\ h.err = "Panic" =>
            /\ vault.total_deposit_amount > 0
            /\ \E i \in Strategies :
                 \/ vault.reward_token_remain_amounts[i] + share(y[1], i)
                      > U64Max
                 \/ vault.reward_token_b_remain_amounts[i] + share(y[2], i)
                      > U64Max
       /\ h.err = "Ok" =>
            /\ h.st.users =
                 [users EXCEPT ![p].user_status = 1,
                               ![p].deadline = now + 30]
            /\ h.st.vault_strategy = vault_strategy
            /\ h.st.strategy = strategy
            /\ vault.total_deposit_amount = 0 => h.st.vault = vault
            /\ vault.total_deposit_amount > 0 =>
                 h.st.vault =
                   [vault EXCEPT
                      !.reward_token_remain_amounts =
                         [i \in AllStrategies |->
                            IF gets(i) THEN @[i] + share(y[1], i) ELSE @[i]],
                      !.reward_token_b_remain_amounts =
                         [i \in AllStrategies |->
                            IF gets(i) /\ vault.has_reward_b
                              THEN @[i] + share(y[2], i) ELSE @[i]]]

\* A position at Ready(4) whose deadline has passed harvests on a vault
\* that holds a deposit: the farm pays, the reward reaches a remainder,
\* and the position is at Harvested(1) with a fresh deadline.
C6_Witness ==
  \E p \in Users, y \in FarmPays(vault, farm) :
    LET h == harvest(Cur, p, y[1], y[2])
    IN /\ users[p].user_status = 4
       /\ now > users[p].deadline
       /\ vault.total_deposit_amount > 0
       /\ y[1] > 0
       /\ h.err = "Ok"
       /\ h.st.users[p].user_status = 1
       /\ h.st.users[p].deadline = now + 30
       /\ \E i \in Strategies :
            h.st.vault.reward_token_remain_amounts[i]
              > vault.reward_token_remain_amounts[i]

\* What the venue pays for amount_in at the pool's quote and rate.
Swapped(amount_in, pool) ==
  IF pool.quoted >= 20 THEN amount_in \div pool.rate ELSE 0

\* C7 (as amended): a successful conversion of a reward token into the
\* settlement asset never changes an accumulator, refreshes the deadline to
\* now + 30 and moves the position from Harvested(1) to SecondaryConverted(3)
\* when the vault has no second reward token, else one status forward (1 to
\* 2 for the first token, 2 to 3 for the second).  When the strategy is
\* enabled it zeroes the remainder of the converted token and adds what the
\* venue paid to the strategy's settlement remainder; when the strategy is
\* disabled the vault record is left as it is.
C7_ToSettlement ==
  \A p \in Users, s \in Strategies, second \in BOOLEAN, pool \in Venue :
    LET f == swap_farm_reward_to_usdc(Cur, p, s, second, pool)
        remain == IF second THEN vault.reward_token_b_remain_amounts[s]
                  ELSE vault.reward_token_remain_amounts[s]
        status == users[p].user_status
    IN f.err = "Ok" =>
         /\ f.st.vault.accumulated_reward_per_shares
              = vault.accumulated_reward_per_shares
         /\ f.st.users =
              [users EXCEPT ![p].deadline = now + 30,
                            ![p].user_status =
                               IF vault.has_reward_b THEN status + 1 ELSE 3]
         /\ status = IF second THEN 2 ELSE 1
         /\ ~vault.has_reward_b => status = 1
         /\ f.st.vault =
              IF ~vault_strategy.availabilities[s] THEN vault
              ELSE IF second
                THEN [vault EXCEPT
                        !.reward_token_b_remain_amounts[s] = 0,
                        !.usdc_token_amounts[s] = @ + Swapped(remain, pool)]
                ELSE [vault EXCEPT
                        !.reward_token_remain_amounts[s] = 0,
                        !.usdc_token_amounts[s] = @ + Swapped(remain, pool)]
         /\ f.st.vault_strategy = vault_strategy
         /\ f.st.strategy = strategy

\* An enabled strategy on the settlement path holds a remainder of the
\* first reward token, and the conversion moves it into the settlement
\* remainder.
C7_Witness ==
  \E p \in Users, s \in Strategies, pool \in Venue :
    LET f == swap_farm_reward_to_usdc(Cur, p, s, FALSE, pool)
    IN /\ vault_strategy.availabilities[s]
       /\ vault.reward_token_remain_amounts[s] > 0
       /\ f.err = "Ok"
       /\ f.st.vault.reward_token_remain_amounts[s] = 0
       /\ f.st.vault.usdc_token_amounts[s] > vault.usdc_token_amounts[s]
       /\ f.st.users[p].user_status = IF vault.has_reward_b THEN 2 ELSE 3

\* C7 as stated: a successful conversion into the settlement asset leaves
\* the remainder of the converted token at zero.
C7_AsStated ==
  \A p \in Users, s \in Strategies, second \in BOOLEAN, pool \in Venue :
    LET f == swap_farm_reward_to_usdc(Cur, p, s, second, pool)
    IN f.err = "Ok" =>
         (IF second THEN f.st.vault.reward_token_b_remain_amounts[s]
          ELSE f.st.vault.reward_token_remain_amounts[s]) = 0

\* C8: the two paths exclude each other per strategy.  On a strategy whose
\* needs_usdc_pool flag is false the conversion into the settlement asset
\* and the conversion of the settlement asset always fail, and a successful
\* direct conversion of the last configured reward token (the first when
\* the vault has no second, else the second) sets the status to Ready(4),
\* that of a first token that is not the last to PrimaryConverted(2).  On a
\* strategy whose flag is true the direct conversion always fails.
C8_PathsExclusive ==
  \A p \in Users, s \in Strategies, second \in BOOLEAN, pool \in Venue :
    LET f == swap_farm_reward_to_usdc(Cur, p, s, second, pool)
        t == swap_usdc_to_strategy_token(Cur, p, s, pool)
        r == swap_reward_to_strategy_token(Cur, p, s, second, pool)
    IN IF vault_strategy.needs_usdc_pools[s]
         THEN r.err = "WrongVaultStrategyStateAccount" /\ r.st = Cur
         ELSE /\ f.err = "WrongVaultStrategyStateAccount" /\ f.st = Cur
              /\ t.err = "WrongVaultStrategyStateAccount" /\ t.st = Cur
              /\ r.err = "Ok" =>
                   r.st.users[p].user_status =
                     IF second = vault.has_reward_b THEN 4 ELSE 2

\* A position at the status of the last reward token on a direct strategy:
\* the direct conversion succeeds and leaves it at Ready(4), the two steps
\* of the settlement path fail; and on a strategy of the settlement path
\* the direct conversion fails.
C8_Witness ==
  \E p \in Users, s \in Strategies, s2 \in Strategies, pool \in Venue :
    LET r == swap_reward_to_strategy_token(Cur, p, s, vault.has_reward_b, pool)
    IN /\ ~vault_strategy.needs_usdc_pools[s]
       /\ r.err = "Ok"
       /\ r.st.users[p].user_status = 4
       /\ swap_usdc_to_strategy_token(Cur, p, s, pool).err
            = "WrongVaultStrategyStateAccount"
       /\ vault_strategy.needs_usdc_pools[s2]
       /\ swap_reward_to_strategy_token(Cur, p, s2, vault.has_reward_b,
                                        pool).err
            = "WrongVaultStrategyStateAccount"

\* C9 (as amended): a successful conversion of the settlement asset moves
\* the position from SecondaryConverted(3) to Ready(4) with deadline
\* now + 30, whatever the strategy holds.  Only when the strategy is
\* enabled, its vault deposit nonzero and its settlement remainder nonzero
\* does it call the venue: if the venue swaps, the remainder is left at zero
\* and what it paid is crystallized into the strategy's accumulator and
\* added to the strategy's totals; if the quote is below the dust floor the
\* remainder and the accumulator stay.  Otherwise vault, link and strategy
\* records are unchanged.
C9_SettlementToTarget ==
  \A p \in Users, s \in Strategies, pool \in Venue :
    LET t == swap_usdc_to_strategy_token(Cur, p, s, pool)
        usdc == vault.usdc_token_amounts[s]
        deposit_amount == vault.deposit_amounts[s]
        paid == Swapped(usdc, pool)
    IN t.err = "Ok" =>
         /\ users[p].user_status = 3
         /\ t.st.users =
              [users EXCEPT ![p].user_status = 4, ![p].deadline = now + 30]
         /\ IF vault_strategy.availabilities[s] /\ deposit_amount # 0
               /\ usdc # 0
              THEN /\ t.st.vault =
                        [vault EXCEPT
                           !.usdc_token_amounts[s] =
                              IF pool.quoted >= 20 THEN 0 ELSE usdc,
                           !.accumulated_reward_per_shares[s] =
                              @ + ((paid * Pow2(WordBits)) \div deposit_amount)]
                   /\ t.st.vault_strategy =
                        [vault_strategy EXCEPT
                           !.strategy_token_amounts[s] = @ + paid]
                   /\ t.st.strategy =
                        [strategy EXCEPT
                           ![s].total_deposit_amount = @ + paid,
                           ![s].deposit_amounts = @ + paid]
              ELSE /\ t.st.vault = vault
                   /\ t.st.vault_strategy = vault_strategy
                   /\ t.st.strategy = strategy

\* A position at SecondaryConverted(3) converts the nonzero settlement
\* remainder of an enabled strategy that holds a deposit: the accumulator
\* grows, the remainder is zero, the position is Ready(4).
C9_Witness ==
  \E p \in Users, s \in Strategies, pool \in Venue :
    LET t == swap_usdc_to_strategy_token(Cur, p, s, pool)
    IN /\ vault_strategy.availabilities[s]
       /\ vault.deposit_amounts[s] # 0
       /\ vault.usdc_token_amounts[s] # 0
       /\ t.err = "Ok"
       /\ t.st.vault.usdc_token_amounts[s] = 0
       /\ t.st.vault.accumulated_reward_per_shares[s]
            > vault.accumulated_reward_per_shares[s]
       /\ t.st.users[p].user_status = 4

\* C9 as stated: the conversion of the settlement asset moves a position
\* to Ready(4) only when the strategy is enabled, its vault deposit nonzero
\* and its settlement remainder nonzero, and then leaves the remainder at
\* zero.
C9_AsStated ==
  \A p \in Users, s \in Strategies, pool \in Venue :
    LET t == swap_usdc_to_strategy_token(Cur, p, s, pool)
    IN (t.err = "Ok" /\ t.st.users[p].user_status = 4) =>
         /\ vault_strategy.availabilities[s]
         /\ vault.deposit_amounts[s] # 0
         /\ vault.usdc_token_amounts[s] # 0
         /\ t.st.vault.usdc_token_amounts[s] = 0

\* The outcome o followed, if it succeeded, by the handler next.
Then(o, next(_)) == IF o.err = "Ok" THEN next(o.st) ELSE o

\* The conversions that complete the cycle of position p through strategy
\* s, on the path s is configured for, all at the venue's quote `pool`.
Finish(st, p, s, pool) ==
  IF st.vault_strategy.needs_usdc_pools[s]
    THEN LET a == swap_farm_reward_to_usdc(st, p, s, FALSE, pool)
             b == IF st.vault.has_reward_b
                    THEN Then(a, LAMBDA x :
                                   swap_farm_reward_to_usdc(x, p, s, TRUE, pool))
                    ELSE a
         IN Then(b, LAMBDA x : swap_usdc_to_strategy_token(x, p, s, pool))
    ELSE LET a == swap_reward_to_strategy_token(st, p, s, FALSE, pool)
         IN IF st.vault.has_reward_b
              THEN Then(a, LAMBDA x :
                             swap_reward_to_strategy_token(x, p, s, TRUE, pool))
              ELSE a

\* C10: a stalled cycle never locks a position.  In every reachable state,
\* whatever the position's status and deadline, its Harvest succeeds and
\* leaves it at Harvested(1); from there the conversions through any
\* registered strategy, on the path the strategy is configured for and at
\* any quote of the venue, succeed within their deadlines and leave the
\* position at Ready(4); and then no Withdraw by the position's owner is
\* refused for the status or the deadline, one of nothing succeeds if the
\* position is initialized, and a Deposit succeeds if the position's
\* strategy is enabled.
C10_NeverLocked ==
  \A p \in Users, y \in FarmPays(vault, farm), s \in Strategies,
     pool \in Venue :
    LET h == harvest(Cur, p, y[1], y[2])
        c == Finish(h.st, p, s, pool)
        u == c.st.users[p]
    IN /\ h.err = "Ok"
       /\ h.st.users[p].user_status = 1
       /\ c.err = "Ok"
       /\ u.user_status = 4
       /\ now <= u.deadline
       /\ u.is_initialized =>
            /\ withdraw(c.st, u.user, p, u.strategy_account, 0, 0).err = "Ok"
            /\ \A amount \in 0 .. u.amount :
                 withdraw(c.st, u.user, p, u.strategy_account, amount, 0).err
                   \notin {"UserStatusError", "TimeoutError"}
       /\ vault_strategy.availabilities[Seed(p)] =>
            deposit(c.st, Owner(p), p, Seed(p), 0).err = "Ok"

\* A position that holds a deposit is in the middle of a cycle whose
\* deadline has passed; Harvest and the conversions bring it to Ready(4)
\* and its owner withdraws the deposit.
C10_Witness ==
  \E p \in Users, s \in Strategies, pool \in Venue :
    LET h == harvest(Cur, p, 0, 0)
        c == Finish(h.st, p, s, pool)
        u == c.st.users[p]
    IN /\ users[p].amount > 0
       /\ users[p].user_status \in 1 .. 3
       /\ now > users[p].deadline
       /\ h.err = "Ok"
       /\ c.err = "Ok"
       /\ u.user_status = 4
       /\ withdraw(c.st, u.user, p, u.strategy_account, u.amount, 0).err = "Ok"

(***************************************************************************)
(* The vault's totals.                                                     *)
(***************************************************************************)
\* The deposits of the strategies of `ss` whose link is enabled.
RECURSIVE EnabledSum(_, _, _)
EnabledSum(v, vs, ss) ==
  IF ss = {} THEN 0
  ELSE LET i == CHOOSE j \in ss : TRUE
       IN (IF vs.availabilities[i] THEN v.deposit_amounts[i] ELSE 0)
            + EnabledSum(v, vs, ss \ {i})

\* C11: in every reachable state vault.total_deposit_amount is the sum of
\* vault.deposit_amounts[i] over the strategies whose link is enabled.
C11_TotalIsEnabledSum ==
  vault.total_deposit_amount = EnabledSum(vault, vault_strategy, Strategies)

(***************************************************************************)
(* Accrual.  Two positions on one enabled strategy, the second holding     *)
(* twice the first, and a farm that pays over several cycles.  The         *)
(* positions only run cycles and settle (a Deposit of nothing): the        *)
(* wallets are empty, nothing is withdrawn and the admin stays away.       *)
(***************************************************************************)
AccrualUnit == 1      \* what the first position holds
AccrualReward == 3    \* reward tokens the farm pays in total

\* The cycle of position p through strategy s, all at the venue's quote
\* `pool`, followed by a Deposit of `amount`.
CycleAndDeposit(st, p, s, pool, amount) ==
  LET h == harvest(st, p, 0, 0)
      f == Then(h, LAMBDA x : Finish(x, p, s, pool))
  IN Then(f, LAMBDA x : deposit(x, Owner(p), p, s, amount))

\* The outcome of the admin enabling strategy 0 of a fresh vault and the
\* two positions making their first Deposit, of `unit` and twice `unit`.
Opened(fees, needs_usdc_pool, unit) ==
  LET st0 == [gauntlet |-> [strategies_len |-> 1], now |-> 1,
              vault |-> InitVault(fees, FALSE),
              vault_strategy |-> InitVaultStrategy,
              strategy |-> [i \in AllStrategies |-> InitStrategy],
              users |-> [p \in 1 .. 2 |-> ZeroUser]]
      pool == [quoted |-> DustFloor, rate |-> 1]
      e == update_vault_strategy(st0, "admin", 0, TRUE, needs_usdc_pool)
      a == Then(e, LAMBDA x : CycleAndDeposit(x, 1, 0, pool, unit))
  IN Then(a, LAMBDA x : CycleAndDeposit(x, 2, 0, pool, 2 * unit))

AccrualInit ==
  /\ \E fees \in FeeChoices, needs_usdc_pool \in BOOLEAN :
       LET o == Opened(fees, needs_usdc_pool, AccrualUnit)
       IN /\ o.err = "Ok"
          /\ gauntlet = o.st.gauntlet
          /\ now = o.st.now
          /\ vault = o.st.vault
          /\ vault_strategy = o.st.vault_strategy
          /\ strategy = o.st.strategy
          /\ users = o.st.users
  /\ farm = AccrualReward
  /\ wallet = 0
  /\ fee_call = NoCall

AccrualNext ==
  \/ Tick
  \/ Harvest
  \/ SwapFarmRewardToUsdc
  \/ SwapUsdcToStrategyToken
  \/ SwapRewardToStrategyToken
  \/ Deposit

SpecAccrual == AccrualInit /\ [][AccrualNext]_vars

\* Whether the accumulators of st are those now in the vault, but for the
\* strategies of `ss`, which may have risen.
AccumulatorKept(st, ss) ==
  \A i \in AllStrategies :
    LET was == vault.accumulated_reward_per_shares[i]
        is == st.vault.accumulated_reward_per_shares[i]
    IN IF i \in ss THEN is >= was ELSE is = was

\* C12: no operation lowers accumulated_reward_per_shares[i], and only a
\* conversion into the target asset of strategy i changes it: in every
\* reachable state and for every input, update_vault_strategy, harvest,
\* swap_farm_reward_to_usdc, deposit and withdraw leave every accumulator
\* as it is, and swap_usdc_to_strategy_token and
\* swap_reward_to_strategy_token on strategy s leave every accumulator but
\* that of s as it is and do not lower that of s.
C12_AccumulatorMonotone ==
  /\ \A signer \in {"admin", "alice"}, s \in Strategies,
        availability \in BOOLEAN, needs_usdc_pool \in BOOLEAN :
       AccumulatorKept(update_vault_strategy(Cur, signer, s, availability,
                                             needs_usdc_pool).st, {})
  /\ \A p \in Users, y \in FarmPays(vault, farm) :
       AccumulatorKept(harvest(Cur, p, y[1], y[2]).st, {})
  /\ \A signer \in Signers, p \in Users, s \in Strategies,
        amount \in 0 .. MaxSupply, reward_amount \in 0 .. MaxReward :
       /\ AccumulatorKept(deposit(Cur, signer, p, s, amount).st, {})
       /\ AccumulatorKept(withdraw(Cur, signer, p, s, amount,
                                   reward_amount).st, {})
  /\ \A p \in Users, s \in Strategies, second \in BOOLEAN, pool \in Venue :
       /\ AccumulatorKept(swap_farm_reward_to_usdc(Cur, p, s, second,
                                                   pool).st, {})
       /\ AccumulatorKept(swap_usdc_to_strategy_token(Cur, p, s, pool).st,
                          {s})
       /\ AccumulatorKept(swap_reward_to_strategy_token(Cur, p, s, second,
                                                        pool).st, {s})

\* C12's case: a conversion raises an accumulator that an earlier
\* conversion had raised.
C12_Witness ==
  \E p \in Users, s \in Strategies, second \in BOOLEAN, pool \in Venue :
    /\ vault.accumulated_reward_per_shares[s] > 0
    /\ \/ LET o == swap_reward_to_strategy_token(Cur, p, s, second, pool)
          IN /\ o.err = "Ok"
             /\ o.st.vault.accumulated_reward_per_shares[s]
                  > vault.accumulated_reward_per_shares[s]
       \/ LET o == swap_usdc_to_strategy_token(Cur, p, s, pool)
          IN /\ o.err = "Ok"
             /\ o.st.vault.accumulated_reward_per_shares[s]
                  > vault.accumulated_reward_per_shares[s]

(***************************************************************************)
(* Conservation.  A vault with one strategy, which the admin enabled once, *)
(* and a farm that pays nothing: the positions deposit and withdraw, each  *)
(* after a cycle.                                                          *)
(***************************************************************************)
ConserveSupply == 2   \* deposit tokens in the depositors' wallets

\* The outcome of the admin enabling strategy 0 of a fresh vault.
Enabled(fees, needs_usdc_pool, users_len) ==
  update_vault_strategy(
    [gauntlet |-> [strategies_len |-> 1], now |-> 1,
     vault |-> InitVault(fees, FALSE),
     vault_strategy |-> InitVaultStrategy,
     strategy |-> [i \in AllStrategies |-> InitStrategy],
     users |-> [p \in 1 .. users_len |-> ZeroUser]],
    "admin", 0, TRUE, needs_usdc_pool)

\* The schedule of a vault without fees, which Fees::validate accepts too.
NoFees ==
  [performance_fee_numerator |-> 0, performance_fee_denominator |-> 0,
   withdrawal_fee_numerator |-> 0, withdrawal_fee_denominator |-> 0]

ConserveInit ==
  /\ \E fees \in FeeChoices \cup {NoFees}, needs_usdc_pool \in BOOLEAN :
       LET o == Enabled(fees, needs_usdc_pool, MaxUsers)
       IN /\ o.err = "Ok"
          /\ gauntlet = o.st.gauntlet
          /\ now = o.st.now
          /\ vault = o.st.vault
          /\ vault_strategy = o.st.vault_strategy
          /\ strategy = o.st.strategy
          /\ users = o.st.users
  /\ farm = 0
  /\ wallet = ConserveSupply
  /\ fee_call = NoCall

ConserveNext ==
  \/ Tick
  \/ Harvest
  \/ SwapFarmRewardToUsdc
  \/ SwapUsdcToStrategyToken
  \/ SwapRewardToStrategyToken
  \/ Deposit
  \/ Withdraw

SpecConserve == ConserveInit /\ [][ConserveNext]_vars

RECURSIVE SumAmounts(_, _)
SumAmounts(us, ps) ==
  IF ps = {} THEN 0
  ELSE LET p == CHOOSE q \in ps : TRUE
       IN us[p].amount + SumAmounts(us, ps \ {p})

\* C13: in a vault with a single enabled strategy and no rewards, after
\* every sequence of successful and failed Deposits and Withdraws of its
\* positions, the amounts of the positions add up to
\* vault.total_deposit_amount.
C13_Conservation ==
  SumAmounts(users, Users) = vault.total_deposit_amount

\* C13's case: both positions hold a deposit and a Withdraw of principal
\* succeeds.
C13_Witness ==
  /\ \A p \in Users : users[p].amount > 0
  /\ \E p \in Users :
       withdraw(Cur, users[p].user, p, 0, 1, 0).err = "Ok"

\* Whether position p has settled at the present accumulator of its
\* strategy.
SettledNow(p) ==
  users[p].reward_debt
    = Entitlement(users[p].amount,
                  vault.accumulated_reward_per_shares[users[p].strategy_account])

\* C14: two positions on the same strategy hold a and 2a throughout.  Once
\* both have settled at the same accumulator, after any number of cycles,
\* what the 2a position has settled is twice what the a position has
\* settled, to one base unit (which is within the one unit per cycle the
\* claim allows).
C14_AccrualFair ==
  (/\ users[2].amount = 2 * users[1].amount
   /\ SettledNow(1) /\ SettledNow(2))
    => LET d == users[2].reward - 2 * users[1].reward
       IN -1 <= d /\ d <= 1

\* C14's case: both positions have settled a reward over the cycles.
C14_Witness ==
  /\ users[2].amount = 2 * users[1].amount
  /\ SettledNow(1) /\ SettledNow(2)
  /\ users[1].reward > 0
  /\ users[2].reward > 0

(***************************************************************************)
(* Harvest apportioning.                                                   *)
(***************************************************************************)
RECURSIVE SumOver(_, _)
SumOver(f, ss) ==
  IF ss = {} THEN 0
  ELSE LET i == CHOOSE j \in ss : TRUE
       IN f[i] + SumOver(f, ss \ {i})

EnabledStrategies == { i \in Strategies : vault_strategy.availabilities[i] }

\* Whether `added`, what a harvest of h added to the remainders by
\* strategy, is the apportioning of h: the floored share for the enabled
\* strategies, nothing for the others, no more than h in all and short of
\* h by less than the number of enabled strategies.
Apportioned(added, h) ==
  /\ \A i \in Strategies :
       added[i] = IF vault_strategy.availabilities[i]
                    THEN (h * vault.deposit_amounts[i])
                           \div vault.total_deposit_amount
                    ELSE 0
  /\ SumOver(added, Strategies) <= h
  /\ h - SumOver(added, Strategies) <= Cardinality(EnabledStrategies) - 1

\* C15: a harvest of h reward units adds
\* floor(h * deposit_amounts[i] / total_deposit_amount) to the unconverted
\* remainder of each enabled strategy i and nothing to the disabled ones;
\* the added shares sum to at most h and fall short of h by at most the
\* number of enabled strategies less one.  Of either reward token.
C15_Apportioning ==
  \A p \in Users, y \in FarmPays(vault, farm) :
    LET o == harvest(Cur, p, y[1], y[2])
        v1 == o.st.vault
    IN (o.err = "Ok" /\ vault.total_deposit_amount > 0)
         => /\ Apportioned([i \in Strategies |->
                              v1.reward_token_remain_amounts[i]
                                - vault.reward_token_remain_amounts[i]], y[1])
            /\ Apportioned([i \in Strategies |->
                              v1.reward_token_b_remain_amounts[i]
                                - vault.reward_token_b_remain_amounts[i]], y[2])

(***************************************************************************)
(* The fee engine on its own: calculate_fee called once on any u128        *)
(* arguments, beside a fresh vault.                                        *)
(***************************************************************************)
FeeInit ==
  /\ gauntlet = [strategies_len |-> 1]
  /\ users = [p \in 1 .. 1 |-> ZeroUser]
  /\ \E fees \in FeeChoices : vault = InitVault(fees, FALSE)
  /\ now = 1
  /\ vault_strategy = InitVaultStrategy
  /\ strategy = [i \in AllStrategies |-> InitStrategy]
  /\ farm = 0
  /\ wallet = 0
  /\ \E token_amount \in 0 .. U128Max, fee_numerator \in 0 .. U128Max,
        fee_denominator \in 0 .. U128Max :
       fee_call = [token_amount |-> token_amount,
                   fee_numerator |-> fee_numerator,
                   fee_denominator |-> fee_denominator,
                   returned |-> FALSE, fee |-> 0]

CalculateFee ==
  /\ ~fee_call.returned
  /\ fee_call' = [fee_call EXCEPT
                    !.returned = TRUE,
                    !.fee = calculate_fee(fee_call.token_amount,
                                          fee_call.fee_numerator,
                                          fee_call.fee_denominator)]
  /\ UNCHANGED <<gauntlet, now, vault, vault_strategy, strategy, users, farm,
                 wallet>>

FeeNext == CalculateFee

SpecFee == FeeInit /\ [][FeeNext]_vars

\* C16: calculate_fee(amount, numerator, denominator) returns 0 when the
\* numerator or the amount is 0, whatever the denominator; otherwise it
\* returns None when amount * numerator does not fit 128 bits or the
\* denominator is 0, and else floor(amount * numerator / denominator), or 1
\* when that quotient is 0.
C16_FeeEngine ==
  fee_call.returned =>
    LET a == fee_call.token_amount
        n == fee_call.fee_numerator
        d == fee_call.fee_denominator
    IN fee_call.fee =
         IF n = 0 \/ a = 0 THEN 0
         ELSE IF a * n > U128Max \/ d = 0 THEN None
         ELSE IF (a * n) \div d = 0 THEN 1
         ELSE (a * n) \div d

\* C16's case: the quotient of a call with a positive amount and a
\* positive numerator was 0 and the minimum fee was returned.
C16_Witness ==
  /\ fee_call.returned
  /\ fee_call.token_amount = 3
  /\ fee_call.fee_numerator = 1
  /\ fee_call.fee_denominator > 3
  /\ fee_call.fee = 1

\* C16 as stated: whenever the numerator and the amount are positive (and
\* the quotient exists), floor(amount * numerator / denominator) is
\* returned, or 1 when it is 0.
C16_AsStated ==
  (fee_call.returned /\ fee_call.fee_denominator > 0) =>
    LET a == fee_call.token_amount
        n == fee_call.fee_numerator
        d == fee_call.fee_denominator
    IN fee_call.fee =
         IF n = 0 \/ a = 0 THEN 0
         ELSE IF (a * n) \div d = 0 THEN 1
         ELSE (a * n) \div d

(***************************************************************************)
(* Fees at withdrawal and at conversion.                                   *)
(***************************************************************************)
\* C17: the fee Withdraw charges on a returned principal `amount` is
\* fee(amount, withdrawal_fee_numerator, withdrawal_fee_denominator) of the
\* fee engine, for every valid schedule: the withdrawer is paid the amount
\* less that fee, and under the schedule 0/0 the withdrawal succeeds.
C17_WithdrawFeeIsEngine ==
  \A p \in Users, amount \in 1 .. MaxSupply :
    LET u == users[p]
        s == u.strategy_account
        o == withdraw(Cur, u.user, p, s, amount, 0)
        w == WithdrawPrincipal(vault, u, s, amount)
        fee == calculate_fee(amount, vault.fees.withdrawal_fee_numerator,
                             vault.fees.withdrawal_fee_denominator)
    IN (/\ u.is_initialized /\ u.user_status = ReadyStatus
        /\ now <= u.deadline /\ amount <= u.amount)
         => /\ o.err = "Ok" => (w.fee = fee /\ w.paid = amount - fee)
            /\ vault.fees = NoFees => o.err = "Ok"

\* The conversions into the target asset of strategy s that position p can
\* ask for at the venue's quote `pool`: the amount converted and the
\* outcome.
TargetConversions(p, s, pool) ==
  { [remain |-> vault.usdc_token_amounts[s],
     o |-> swap_usdc_to_strategy_token(Cur, p, s, pool)] }
  \cup
  { [remain |-> RewardRemain(vault, s, second),
     o |-> swap_reward_to_strategy_token(Cur, p, s, second, pool)] :
    second \in BOOLEAN }

C19_RoundTrip ==
  \A s \in Strategies, needs_off \in BOOLEAN, needs_on \in BOOLEAN :
    LET x == vault.deposit_amounts[s]
        off == update_vault_strategy(Cur, "admin", s, FALSE, needs_off)
        on == update_vault_strategy(off.st, "admin", s, TRUE, needs_on)
    IN (vault_strategy.availabilities[s] /\ x > 0 /\ off.err = "Ok")
         => /\ off.st.vault =
                 [vault EXCEPT !.total_deposit_amount = @ - x]
            /\ ~off.st.vault_strategy.availabilities[s]
            /\ on.err = "Ok"
            /\ on.st.vault = vault
            /\ on.st.vault_strategy.availabilities[s]

\* C19's case: an enabled strategy holds a deposit and the admin's
\* disabling of it succeeds.
C19_Witness ==
  \E s \in Strategies :
    /\ vault_strategy.availabilities[s]
    /\ vault.deposit_amounts[s] > 0
    /\ update_vault_strategy(Cur, "admin", s, FALSE, FALSE).err = "Ok"
    /\ vault.total_deposit_amount > vault.deposit_amounts[s]

(***************************************************************************)
(* Settling twice.                                                         *)
(***************************************************************************)
\* C20: settlement is idempotent.  From every reachable state, when a
\* Deposit of nothing by position p succeeds, and p then runs a cycle (a
\* Harvest at which the farm pays anything it can, the conversions through
\* any strategy at any quote) that leaves the accumulator of p's strategy
\* as it was, a second Deposit of nothing that succeeds leaves p's reward as
\* the first left it.
C20_SettleTwice ==
  \A p \in Users, s2 \in Strategies, pool \in Venue :
    LET s == users[p].strategy_account
        first == deposit(Cur, users[p].user, p, s, 0)
    IN first.err = "Ok" =>
         \A y \in FarmPays(first.st.vault, farm) :
           LET h == harvest(first.st, p, y[1], y[2])
               f == Then(h, LAMBDA x : Finish(x, p, s2, pool))
               second == Then(f, LAMBDA x : deposit(x, users[p].user, p, s, 0))
           IN (/\ second.err = "Ok"
               /\ f.st.vault.accumulated_reward_per_shares[s]
                    = first.st.vault.accumulated_reward_per_shares[s])
                => second.st.users[p].reward = first.st.users[p].reward

\* C20's case: the first Deposit of nothing settles a pending reward, a
\* cycle follows and the second succeeds.
C20_Witness ==
  \E p \in Users, pool \in Venue :
    LET s == users[p].strategy_account
        first == deposit(Cur, users[p].user, p, s, 0)
        h == Then(first, LAMBDA x : harvest(x, p, 0, 0))
        f == Then(h, LAMBDA x : Finish(x, p, s, pool))
        second == Then(f, LAMBDA x : deposit(x, users[p].user, p, s, 0))
    IN /\ first.err = "Ok"
       /\ first.st.users[p].reward > users[p].reward
       /\ second.err = "Ok"
       /\ second.st.users[p].reward = first.st.users[p].reward

(***************************************************************************)
(* Settlement at Deposit and Withdraw.  One strategy and one position,     *)
(* whose owner can deposit twice.                                          *)
(***************************************************************************)
SoloSupply == 2   \* deposit tokens in the depositor's wallet
SoloReward == 2   \* reward tokens the farm pays in total

SoloInit ==
  InitOf({[strategies_len |-> 1, users_len |-> 1, has_reward_b |-> FALSE]},
         FeeChoices, SoloSupply, SoloReward)

SpecSolo == SoloInit /\ [][Next]_vars

\* C21: on every successful Deposit and Withdraw the pending entitlement
\* ((old amount * accumulator) >> 64) - reward_debt, computed with the
\* amount held before the change, is added to the position's reward, then
\* the amount changes, and reward_debt becomes
\* (new amount * accumulator) >> 64.  (A Withdraw that asks for a reward
\* then pays the whole reward out.)
C21_SettleBeforeChange ==
  \A signer \in Signers, p \in Users, s \in Strategies,
     amount \in 0 .. SoloSupply, reward_amount \in 0 .. SoloReward :
    LET u == users[p]
        acc == vault.accumulated_reward_per_shares[s]
        pending == ((u.amount * acc) \div Pow2(WordBits)) - u.reward_debt
        d == deposit(Cur, signer, p, s, amount)
        w == withdraw(Cur, signer, p, s, amount, reward_amount)
    IN /\ d.err = "Ok" =>
            /\ d.st.users[p].reward = u.reward + pending
            /\ d.st.users[p].amount = u.amount + amount
            /\ d.st.users[p].reward_debt
                 = ((u.amount + amount) * acc) \div Pow2(WordBits)
       /\ w.err = "Ok" =>
            /\ w.st.users[p].reward
                 = IF reward_amount > 0 THEN 0 ELSE u.reward + pending
            /\ w.st.users[p].amount = u.amount - amount
            /\ w.st.users[p].reward_debt
                 = ((u.amount - amount) * acc) \div Pow2(WordBits)

\* C21's case: a position that holds an amount and has a pending
\* entitlement deposits more, and the entitlement of what it then holds is
\* more than that of what it held.
C21_Witness ==
  \E p \in Users :
    LET u == users[p]
        s == u.strategy_account
        acc == vault.accumulated_reward_per_shares[s]
        d == deposit(Cur, u.user, p, s, 1)
    IN /\ u.amount > 0
       /\ ((u.amount * acc) \div Pow2(WordBits)) - u.reward_debt > 0
       /\ d.err = "Ok"
       /\ d.st.users[p].reward > u.reward
       /\ d.st.users[p].reward_debt > (u.amount * acc) \div Pow2(WordBits)

\* C22: Withdraw rejects a request for insufficient balance only.  When
\* the owner of an initialized position that is Ready and within its
\* deadline asks for more than the position's amount, Withdraw fails with
\* InvalidWithdrawAmount and changes nothing; when they ask for the amount
\* or less, the amount check does not reject it: InvalidWithdrawAmount is
\* then returned only for a reward_amount above the settled reward.
C22_OnlyInsufficient ==
  \A p \in Users, amount \in 0 .. SoloSupply + 1,
     reward_amount \in 0 .. SoloReward :
    LET u == users[p]
        s == u.strategy_account
        w == withdraw(Cur, u.user, p, s, amount, reward_amount)
    IN (/\ u.is_initialized /\ u.user_status = 4 /\ now <= u.deadline)
         => IF amount > u.amount
              THEN w.err = "InvalidWithdrawAmount" /\ w.st = Cur
              ELSE /\ reward_amount = 0 => w.err # "InvalidWithdrawAmount"
                   /\ w.err = "InvalidWithdrawAmount" =>
                        Settle(u, vault.accumulated_reward_per_shares[s]).reward
                          < reward_amount

\* C22's case: a Ready position that holds an amount; a Withdraw of all of
\* it succeeds and one of a unit more is refused.
C22_Witness ==
  \E p \in Users :
    LET u == users[p]
        s == u.strategy_account
    IN /\ u.is_initialized /\ u.user_status = 4 /\ now <= u.deadline
       /\ u.amount > 0
       /\ withdraw(Cur, u.user, p, s, u.amount, 0).err = "Ok"
       /\ withdraw(Cur, u.user, p, s, u.amount + 1, 0).err
            = "InvalidWithdrawAmount"

(***************************************************************************)
(* Failures.                                                               *)
(***************************************************************************)
\* The outcomes of every instruction on every input, in the present state.
Outcomes ==
  { update_vault_strategy(Cur, signer, s, availability, needs_usdc_pool) :
      signer \in {"admin", "alice"}, s \in Strategies,
      availability \in BOOLEAN, needs_usdc_pool \in BOOLEAN }
  \cup { harvest(Cur, p, y[1], y[2]) :
           p \in Users, y \in FarmPays(vault, farm) }
  \cup { swap_farm_reward_to_usdc(Cur, p, s, second, pool) :
           p \in Users, s \in Strategies, second \in BOOLEAN, pool \in Venue }
  \cup { swap_usdc_to_strategy_token(Cur, p, s, pool) :
           p \in Users, s \in Strategies, pool \in Venue }
  \cup { swap_reward_to_strategy_token(Cur, p, s, second, pool) :
           p \in Users, s \in Strategies, second \in BOOLEAN, pool \in Venue }
  \cup { deposit(Cur, signer, p, s, amount) :
           signer \in Signers, p \in Users, s \in Strategies,
           amount \in 0 .. MaxSupply }
  \cup { withdraw(Cur, signer, p, s, amount, reward_amount) :
           signer \in Signers, p \in Users, s \in Strategies,
           amount \in 0 .. MaxSupply, reward_amount \in 0 .. MaxReward }

SameCredit(once, again) ==
  /\ again.st.vault.accumulated_reward_per_shares
       = once.st.vault.accumulated_reward_per_shares
  /\ again.st.vault.reward_token_remain_amounts
       = once.st.vault.reward_token_remain_amounts
  /\ again.st.vault.reward_token_b_remain_amounts
       = once.st.vault.reward_token_b_remain_amounts
  /\ again.st.vault.usdc_token_amounts = once.st.vault.usdc_token_amounts
  /\ again.st.strategy = once.st.strategy
  /\ again.st.vault_strategy = once.st.vault_strategy

\* C24: no double credit.  After a successful conversion of a reward token
\* (first or second) for strategy s, on either path, the same conversion
\* asked again by the same or another position at any quote, with no
\* Harvest in between, changes no accumulator, no remainder and no target
\* total.
C24_NoDoubleCredit ==
  \A p \in Users, q \in Users, s \in Strategies, second \in BOOLEAN,
     pool \in Venue, pool2 \in Venue :
    /\ LET once == swap_reward_to_strategy_token(Cur, p, s, second, pool)
           again == swap_reward_to_strategy_token(once.st, q, s, second,
                                                  pool2)
       IN once.err = "Ok" => SameCredit(once, again)
    /\ LET once == swap_farm_reward_to_usdc(Cur, p, s, second, pool)
           again == swap_farm_reward_to_usdc(once.st, q, s, second, pool2)
       IN once.err = "Ok" => SameCredit(once, again)

\* C24's case: a conversion crystallizes a remainder and another position
\* asks for it again, successfully.
C24_Witness ==
  \E p \in Users, q \in Users, s \in Strategies, pool \in Venue :
    LET once == swap_reward_to_strategy_token(Cur, p, s, FALSE, pool)
        again == swap_reward_to_strategy_token(once.st, q, s, FALSE, pool)
    IN /\ p # q
       /\ once.err = "Ok"
       /\ once.st.vault.accumulated_reward_per_shares[s]
            > vault.accumulated_reward_per_shares[s]
       /\ again.err = "Ok"

(***************************************************************************)
(* The dust floor.                                                         *)
(***************************************************************************)
\* Whether the outcome o of a conversion by position p left the
\* accumulators, the settlement remainders, the link and the strategy
\* records as they are, and advanced p's status.
SkippedSwap(o, p) ==
  /\ o.st.vault.accumulated_reward_per_shares
       = vault.accumulated_reward_per_shares
  /\ o.st.vault.usdc_token_amounts = vault.usdc_token_amounts
  /\ o.st.vault_strategy = vault_strategy
  /\ o.st.strategy = strategy
  /\ o.st.users[p].user_status > users[p].user_status

\* C25 (as amended): a conversion step whose quoted destination amount is
\* below the dust floor of 20 is not rejected.  The venue is not called and
\* nothing is credited, but the step succeeds whenever the position's
\* status, its deadline and the strategy's path allow it, and advances the
\* position's status as an executed conversion does.  A reward-token
\* remainder the step had to swap is set to 0 all the same; a
\* settlement-asset remainder is kept.
C25_DustSkipped ==
  \A p \in Users, s \in Strategies, second \in BOOLEAN, pool \in Venue :
    LET u == users[p]
        ready == u.user_status = (IF second THEN 2 ELSE 1)
                   /\ now <= u.deadline
        remain == RewardRemain(vault, s, second)
        a == swap_farm_reward_to_usdc(Cur, p, s, second, pool)
        b == swap_reward_to_strategy_token(Cur, p, s, second, pool)
        c == swap_usdc_to_strategy_token(Cur, p, s, pool)
    IN pool.quoted < 20 =>
         /\ (ready /\ vault_strategy.needs_usdc_pools[s]) => a.err = "Ok"
         /\ a.err = "Ok" =>
              /\ SkippedSwap(a, p)
              /\ RewardRemain(a.st.vault, s, second)
                   = IF vault_strategy.availabilities[s] THEN 0 ELSE remain
         /\ (ready /\ ~vault_strategy.needs_usdc_pools[s]) => b.err = "Ok"
         /\ b.err = "Ok" =>
              /\ SkippedSwap(b, p)
              /\ RewardRemain(b.st.vault, s, second)
                   = IF vault_strategy.availabilities[s]
                        /\ vault.deposit_amounts[s] # 0
                       THEN 0 ELSE remain
         /\ (u.user_status = 3 /\ now <= u.deadline
               /\ vault_strategy.needs_usdc_pools[s]) => c.err = "Ok"
         /\ c.err = "Ok" => (SkippedSwap(c, p) /\ c.st.vault = vault)

\* C25's case: a position at Harvested(1) asks for the conversion of a
\* nonzero remainder of an enabled strategy that holds a deposit, at a
\* quote below the dust floor.
C25_Witness ==
  \E p \in Users, s \in Strategies, pool \in Venue :
    /\ pool.quoted < 20
    /\ vault_strategy.availabilities[s]
    /\ vault.deposit_amounts[s] # 0
    /\ RewardRemain(vault, s, FALSE) > 0
    /\ swap_reward_to_strategy_token(Cur, p, s, FALSE, pool).err = "Ok"

\* C25 as stated: a conversion step whose quoted destination amount is
\* below the dust floor of 20 is rejected.  Whenever a conversion that has something
\* to swap (a nonzero remainder of an enabled strategy; into the target
\* asset, of a strategy with a vault deposit) is asked at such a quote, it
\* does not succeed, so the position's status is not advanced.
C25_AsStated ==
  \A p \in Users, s \in Strategies, second \in BOOLEAN, pool \in Venue :
    (pool.quoted < 20 /\ vault_strategy.availabilities[s]) =>
      /\ RewardRemain(vault, s, second) > 0 =>
           swap_farm_reward_to_usdc(Cur, p, s, second, pool).err # "Ok"
      /\ (RewardRemain(vault, s, second) > 0 /\ vault.deposit_amounts[s] # 0)
           => swap_reward_to_strategy_token(Cur, p, s, second, pool).err
                # "Ok"
      /\ (vault.usdc_token_amounts[s] > 0 /\ vault.deposit_amounts[s] # 0)
           => swap_usdc_to_strategy_token(Cur, p, s, pool).err # "Ok"

(***************************************************************************)
(* Vault creation on its own: one InitVault instruction, with any four     *)
(* u64 values as its fee schedule, sent to a zeroed vault account.         *)
(***************************************************************************)
\* Faulty variant of validate_fraction: a numerator equal to the
\* denominator is accepted.
validate_fraction_Lenient(numerator, denominator) ==
  IF denominator = 0 /\ numerator = 0 THEN "Ok"
  ELSE IF numerator > denominator THEN "InvalidFee"
  ELSE "Ok"

validate_fraction(numerator, denominator) ==
  IF denominator = 0 /\ numerator = 0 THEN "Ok"
  ELSE IF numerator >= denominator THEN "InvalidFee"
  ELSE "Ok"

\* Fees::validate: the performance schedule first, then the withdrawal one.
Fees_validate(fees) ==
  LET e == validate_fraction(fees.performance_fee_numerator,
                             fees.performance_fee_denominator)
  IN IF e # "Ok" THEN e
     ELSE validate_fraction(fees.withdrawal_fee_numerator,
                            fees.withdrawal_fee_denominator)

\* Every schedule an InitVault instruction can carry.
AllFees ==
  [performance_fee_numerator : 0 .. U64Max,
   performance_fee_denominator : 0 .. U64Max,
   withdrawal_fee_numerator : 0 .. U64Max,
   withdrawal_fee_denominator : 0 .. U64Max]

\* The vault state account before init_vault: all bytes zero.
ZeroVault == InitVault(NoFees, FALSE)

CreateInit ==
  /\ gauntlet = [strategies_len |-> 1]
  /\ users = [p \in 1 .. 1 |-> ZeroUser]
  /\ vault = ZeroVault
  /\ now = 1
  /\ vault_strategy = InitVaultStrategy
  /\ strategy = [i \in AllStrategies |-> InitStrategy]
  /\ farm = 0
  /\ wallet = 0
  /\ \E fees \in AllFees, has_b \in BOOLEAN :
       fee_call = [fees |-> fees, has_reward_b |-> has_b,
                   returned |-> FALSE, result |-> "Ok"]

\* GauntletInstruction::unpack of tag 1 followed by init_vault, signed by
\* the admin: a schedule that Fees::validate rejects ends the instruction
\* before init_vault is entered.
CreateVault ==
  /\ ~fee_call.returned
  /\ LET e == Fees_validate(fee_call.fees)
     IN /\ fee_call' = [fee_call EXCEPT !.returned = TRUE, !.result = e]
        /\ vault' = IF e = "Ok"
                      THEN InitVault(fee_call.fees, fee_call.has_reward_b)
                      ELSE vault
  /\ UNCHANGED <<gauntlet, now, vault_strategy, strategy, users, farm,
                 wallet>>

CreateNext == CreateVault

SpecCreate == CreateInit /\ [][CreateNext]_vars

\* C26: fee schedules are validated at vault creation.  The InitVault
\* instruction succeeds iff each of the two (numerator, denominator) pairs
\* has denominator = 0 and numerator = 0, or numerator < denominator; any
\* other schedule fails with InvalidFee and no vault is created.
C26_FeesValidated ==
  fee_call.returned =>
    LET f == fee_call.fees
        accepted ==
          /\ \/ (f.performance_fee_denominator = 0
                  /\ f.performance_fee_numerator = 0)
             \/ f.performance_fee_numerator < f.performance_fee_denominator
          /\ \/ (f.withdrawal_fee_denominator = 0
                  /\ f.withdrawal_fee_numerator = 0)
             \/ f.withdrawal_fee_numerator < f.withdrawal_fee_denominator
    IN /\ fee_call.result = IF accepted THEN "Ok" ELSE "InvalidFee"
       /\ accepted => vault.fees = f
       /\ ~accepted => vault = ZeroVault

\* C26's case: a schedule whose performance numerator equals its nonzero
\* denominator, beside a valid withdrawal schedule, was rejected.
C26_Witness ==
  /\ fee_call.returned
  /\ fee_call.fees.performance_fee_numerator = 2
  /\ fee_call.fees.performance_fee_denominator = 2
  /\ fee_call.fees.withdrawal_fee_numerator = 1
  /\ fee_call.fees.withdrawal_fee_denominator = 3
  /\ fee_call.result = "InvalidFee"

NarrowUnit == 1     \* what the first position holds
NarrowReward == 2   \* reward tokens the farm pays in total

\* The outcome of the admin enabling strategies 0 and 1 of a fresh vault and
\* the positions 1 (on strategy 0) and 2 (on strategy 1) making their first
\* Deposit, of `unit` and twice `unit`.
OpenedTwo(fees, unit) ==
  LET st0 == [gauntlet |-> [strategies_len |-> 2], now |-> 1,
              vault |-> InitVault(fees, FALSE),
              vault_strategy |-> InitVaultStrategy,
              strategy |-> [i \in AllStrategies |-> InitStrategy],
              users |-> [p \in 1 .. 2 |-> ZeroUser]]
      pool == [quoted |-> DustFloor, rate |-> 1]
      e == update_vault_strategy(st0, "admin", 0, TRUE, FALSE)
      f == Then(e, LAMBDA x : update_vault_strategy(x, "admin", 1, TRUE,
                                                    FALSE))
      a == Then(f, LAMBDA x : CycleAndDeposit(x, 1, 0, pool, unit))
  IN Then(a, LAMBDA x : CycleAndDeposit(x, 2, 1, pool, 2 * unit))

NarrowInit ==
  /\ \E fees \in FeeChoices :
       LET o == OpenedTwo(fees, NarrowUnit)
       IN /\ o.err = "Ok"
          /\ gauntlet = o.st.gauntlet
          /\ now = o.st.now
          /\ vault = o.st.vault
          /\ vault_strategy = o.st.vault_strategy
          /\ strategy = o.st.strategy
          /\ users = o.st.users
  /\ farm = NarrowReward
  /\ wallet = 0
  /\ fee_call = NoCall

\* The admin and the harvest cycle; the positions keep what they hold.
NarrowNext ==
  \/ UpdateVaultStrategy
  \/ Harvest
  \/ SwapFarmRewardToUsdc
  \/ SwapUsdcToStrategyToken
  \/ SwapRewardToStrategyToken

SpecNarrow == NarrowInit /\ [][NarrowNext]_vars

\* Whether the quotient of a * b by c fits 64 bits.
Fits(a, b, c) == (a * b) \div c <= U64Max

\* C28: narrowing is never silent.  In every operation that succeeds, each
\* 128-bit intermediate that is narrowed to 64 bits fits 64 bits: the
\* harvest shares h * deposit_amounts[i] / total_deposit_amount of the
\* enabled strategies, the entitlements (amount * accumulator) >> 64 that
\* are settled and stored as reward_debt, the reward payout
\* strat_amount * reward / strategy_token_amounts[i], and the fees.
C28_NarrowingNeverSilent ==
  /\ \A p \in Users, y \in FarmPays(vault, farm) :
       (harvest(Cur, p, y[1], y[2]).err = "Ok" /\ HarvestPulls(vault)) =>
         \A i \in Strategies :
           vault_strategy.availabilities[i] =>
             /\ Fits(y[1], vault.deposit_amounts[i],
                     vault.total_deposit_amount)
             /\ Fits(y[2], vault.deposit_amounts[i],
                     vault.total_deposit_amount)
  /\ \A signer \in Signers, p \in Users, s \in Strategies,
        amount \in 0 .. U64Max :
       LET acc == vault.accumulated_reward_per_shares[s]
           o == deposit(Cur, signer, p, s, amount)
       IN o.err = "Ok" =>
            /\ Fits(users[p].amount, acc, Pow2(WordBits))
            /\ Fits(users[p].amount + amount, acc, Pow2(WordBits))
  /\ \A signer \in Signers, p \in Users, s \in Strategies,
        amount \in 0 .. U64Max, reward_amount \in 0 .. U64Max :
       LET acc == vault.accumulated_reward_per_shares[s]
           f == vault.fees
           o == withdraw(Cur, signer, p, s, amount, reward_amount)
           reward == users[p].reward
                       + ((users[p].amount * acc) \div Pow2(WordBits))
                       - users[p].reward_debt
       IN o.err = "Ok" =>
            /\ Fits(users[p].amount, acc, Pow2(WordBits))
            /\ Fits(users[p].amount - amount, acc, Pow2(WordBits))
            /\ reward_amount > 0 =>
                 /\ Fits(strategy[s].deposit_amounts, reward,
                         vault_strategy.strategy_token_amounts[s])
                 /\ Fits((strategy[s].deposit_amounts * reward)
                           \div vault_strategy.strategy_token_amounts[s],
                         f.performance_fee_numerator,
                         f.performance_fee_denominator)
            /\ amount > 0 =>
                 Fits(amount, f.withdrawal_fee_numerator,
                      f.withdrawal_fee_denominator)

\* C29: a Deposit into a strategy whose link is disabled never succeeds and
\* changes nothing, whatever the position's status and deadline; when the
\* depositor and the strategy are those of the position (or the position is
\* not yet initialized) it fails with InvalidStatusStrategy.
C29_DisabledDeposit ==
  \A signer \in Signers, p \in Users, s \in Strategies,
     amount \in 0 .. U64Max :
    LET u == users[p]
        o == deposit(Cur, signer, p, s, amount)
    IN ~vault_strategy.availabilities[s] =>
         /\ o.err # "Ok"
         /\ o.st = Cur
         /\ (u.is_initialized => (signer = u.user /\ s = u.strategy_account))
              => o.err = "InvalidStatusStrategy"

\* C29's case: the owner of a position that holds a deposit and is at
\* Ready(4) within its deadline deposits into its strategy, which the admin
\* has disabled.
C29_Witness ==
  \E p \in Users, amount \in 1 .. U64Max :
    /\ users[p].is_initialized
    /\ users[p].amount > 0
    /\ users[p].user_status = 4
    /\ now <= users[p].deadline
    /\ ~vault_strategy.availabilities[users[p].strategy_account]
    /\ deposit(Cur, users[p].user, p, users[p].strategy_account, amount).err
         = "InvalidStatusStrategy"

\* C30: the deadline is inclusive.  No conversion step, Deposit or Withdraw
\* attempted at now = deadline fails with TimeoutError, and one attempted at
\* now = deadline + 1 that passes the checks made before the deadline check
\* (accounts, path, availability, status) fails with TimeoutError.
C30_DeadlineInclusive ==
  \A p \in Users, s \in Strategies, second \in BOOLEAN, pool \in Venue,
     signer \in Signers, amount \in 0 .. U64Max :
    LET u == users[p]
        required == IF second THEN 2 ELSE 1
        usdc == vault_strategy.needs_usdc_pools[s]
        mine == u.is_initialized /\ signer = u.user /\ s = u.strategy_account
        a == swap_farm_reward_to_usdc(Cur, p, s, second, pool)
        b == swap_usdc_to_strategy_token(Cur, p, s, pool)
        c == swap_reward_to_strategy_token(Cur, p, s, second, pool)
        d == deposit(Cur, signer, p, s, amount)
        w == withdraw(Cur, signer, p, s, amount, 0)
    IN /\ now = u.deadline =>
            /\ a.err # "TimeoutError"
            /\ b.err # "TimeoutError"
            /\ c.err # "TimeoutError"
            /\ d.err # "TimeoutError"
            /\ w.err # "TimeoutError"
       /\ now = u.deadline + 1 =>
            /\ (usdc /\ u.user_status = required) => a.err = "TimeoutError"
            /\ (usdc /\ u.user_status = 3) => b.err = "TimeoutError"
            /\ (~usdc /\ u.user_status = required) => c.err = "TimeoutError"
            /\ (mine /\ vault_strategy.availabilities[s]
                 /\ u.user_status = 4) => d.err = "TimeoutError"
            /\ (mine /\ u.user_status = 4) => w.err = "TimeoutError"

\* C30's case: at now = deadline, 30 after its Harvest, a position at
\* Harvested(1) converts its reward successfully.
C30_Witness ==
  /\ \E p \in Users, s \in Strategies, pool \in Venue :
       /\ users[p].user_status = 1
       /\ now = users[p].deadline
       /\ swap_reward_to_strategy_token(Cur, p, s, FALSE, pool).err = "Ok"
  /\ now > 30

\* The positions of strategy i.
PositionsOf(i) == { p \in Users : users[p].strategy_account = i }

\* C31: in every reachable state and for every strategy i,
\* vault.deposit_amounts[i] is the sum of the amounts of the positions of
\* strategy i, whether or not strategy i is enabled.
C31_DepositIsPositionSum ==
  \A i \in Strategies :
    vault.deposit_amounts[i] = SumAmounts(users, PositionsOf(i))

\* C31's case: the owner of a position that holds a deposit in a disabled
\* strategy withdraws it successfully.
C31_Witness ==
  \E p \in Users, amount \in 1 .. U64Max :
    LET u == users[p]
        o == withdraw(Cur, u.user, p, u.strategy_account, amount, 0)
    IN /\ u.is_initialized
       /\ ~vault_strategy.availabilities[u.strategy_account]
       /\ u.amount >= amount
       /\ o.err = "Ok"
       /\ o.st.vault.deposit_amounts[u.strategy_account]
            = vault.deposit_amounts[u.strategy_account] - amount

(***************************************************************************)
(* Two positions sharing one strategy on the direct path, with enough      *)
(* deposit tokens for one of them to hold twice what the other holds.      *)
(***************************************************************************)
PoolSupply == 3   \* deposit tokens in the depositors' wallets
PoolReward == 2   \* reward tokens the farm pays in total

PoolInit ==
  InitOf({[strategies_len |-> 1, users_len |-> 2, has_reward_b |-> FALSE]},
         FeeChoices, PoolSupply, PoolReward)

\* The admin, the direct harvest cycle, Deposit and Withdraw, all within
\* the first deadline.
PoolNext ==
  \/ UpdateVaultStrategy
  \/ Harvest
  \/ SwapRewardToStrategyToken
  \/ Deposit
  \/ Withdraw

SpecPool == PoolInit /\ [][PoolNext]_vars

\* What position p can claim of its strategy's target-asset rewards: the
\* settled reward plus what has accrued since reward_debt was taken.
Claimable(us, v, p) ==
  LET u == us[p]
  IN u.reward
       + (IF u.amount > 0
            THEN ((u.amount
                    * v.accumulated_reward_per_shares[u.strategy_account])
                   \div Pow2(WordBits)) - u.reward_debt
            ELSE 0)

RECURSIVE SumClaimable(_, _, _)
SumClaimable(us, v, ps) ==
  IF ps = {} THEN 0
  ELSE LET p == CHOOSE q \in ps : TRUE
       IN Claimable(us, v, p) + SumClaimable(us, v, ps \ {p})

\* C32: reward solvency.  In every reachable state and for every strategy
\* i, what the positions of strategy i can claim adds up to at most
\* vault_strategy.strategy_token_amounts[i], so a Withdraw of a positive
\* reward never fails on a division by zero or an underflow of
\* strategy_token_amounts[i].
C32_RewardSolvency ==
  /\ \A i \in Strategies :
       SumClaimable(users, vault, PositionsOf(i))
         <= vault_strategy.strategy_token_amounts[i]
  /\ \A p \in Users :
       LET u == users[p]
           s == u.strategy_account
           u1 == Settle(u, vault.accumulated_reward_per_shares[s])
       IN (u.is_initialized /\ u1.reward # None /\ u1.reward > 0) =>
            /\ vault_strategy.strategy_token_amounts[s] # 0
            /\ WithdrawReward(Cur, u1, s).strategy_token_amounts # None

\* C33: in every reachable state and for every strategy,
\* strategy.total_deposit_amount is the sum of strategy.deposit_amounts over
\* the vaults, which is the entry of the one vault there is.
C33_StrategyTotalIsSum ==
  \A i \in Strategies :
    strategy[i].total_deposit_amount = strategy[i].deposit_amounts

\* C34: setting the availability of a strategy to the value its link
\* already stores leaves vault.total_deposit_amount unchanged, even when
\* the strategy holds a deposit.
C34_AvailabilityIdempotent ==
  \A s \in Strategies, needs_usdc_pool \in BOOLEAN :
    LET o == update_vault_strategy(Cur, "admin", s,
                                   vault_strategy.availabilities[s],
                                   needs_usdc_pool)
    IN /\ o.err = "Ok"
       /\ o.st.vault.total_deposit_amount = vault.total_deposit_amount

\* C35: a Withdraw of principal by the owner of a Ready(4) position, within
\* its deadline and its amount, from a strategy that is disabled succeeds,
\* lowers position.amount and vault.deposit_amounts[i] by the amount and
\* leaves vault.total_deposit_amount as it is.
C35_DisabledWithdraw ==
  \A p \in Users, amount \in 1 .. U64Max :
    LET u == users[p]
        s == u.strategy_account
        o == withdraw(Cur, u.user, p, s, amount, 0)
    IN (/\ u.is_initialized
        /\ ~vault_strategy.availabilities[s]
        /\ u.user_status = 4
        /\ now <= u.deadline
        /\ amount <= u.amount) =>
         /\ o.err = "Ok"
         /\ o.st.users[p].amount = u.amount - amount
         /\ o.st.vault.deposit_amounts[s] = vault.deposit_amounts[s] - amount
         /\ o.st.vault.total_deposit_amount = vault.total_deposit_amount

\* The reward of position p once its pending entitlement is settled.
SettledReward(p) == Claimable(users, vault, p)

\* C36: a successful Withdraw with 0 < reward_amount releases exactly
\* reward_amount of the settled reward: position.reward,
\* strategy.deposit_amounts[vault] and strategy_token_amounts[i] each
\* decrease by reward_amount.  A request with reward_amount greater than
\* the settled reward that passes the checks made before (owner, strategy,
\* status, deadline, amount) fails with InvalidWithdrawAmount.
C36_RewardReleasedExactly ==
  \A signer \in Signers, p \in Users, s \in Strategies,
     amount \in 0 .. U64Max, reward_amount \in 1 .. U64Max :
    LET u == users[p]
        o == withdraw(Cur, signer, p, s, amount, reward_amount)
    IN /\ o.err = "Ok" =>
            /\ o.st.users[p].reward = SettledReward(p) - reward_amount
            /\ o.st.strategy[s].deposit_amounts
                 = strategy[s].deposit_amounts - reward_amount
            /\ o.st.vault_strategy.strategy_token_amounts[s]
                 = vault_strategy.strategy_token_amounts[s] - reward_amount
       /\ (/\ u.is_initialized
           /\ signer = u.user
           /\ s = u.strategy_account
           /\ u.user_status = 4
           /\ now <= u.deadline
           /\ amount <= u.amount
           /\ u.amount * vault.accumulated_reward_per_shares[s] <= U128Max
           /\ SettledReward(p) <= U64Max
           /\ reward_amount > SettledReward(p))
            => o.err = "InvalidWithdrawAmount"

\* C37: in every reachable state the status of every position is one of
\* 0, 1, 2, 3, 4, and no instruction that succeeds leaves a status outside
\* that range, with or without a second reward token and on either path.
C37_StatusInRange ==
  /\ \A p \in Users : users[p].user_status \in 0 .. 4
  /\ \A o \in Outcomes :
       o.err = "Ok" => \A p \in Users : o.st.users[p].user_status \in 0 .. 4

\* C37's case: in a vault with a second reward token, a position at
\* PrimaryConverted(2) converts the second token on the direct path and
\* arrives at Ready(4).
C37_Witness ==
  \E p \in Users, s \in Strategies, pool \in Venue :
    LET o == swap_reward_to_strategy_token(Cur, p, s, TRUE, pool)
    IN /\ vault.has_reward_b
       /\ users[p].user_status = 2
       /\ o.err = "Ok"
       /\ o.st.users[p].user_status = 4

\* The saga fields of position p are the same in st as in the current state.
SagaUntouched(st, p) ==
  /\ st.users[p].user_status = users[p].user_status
  /\ st.users[p].deadline = users[p].deadline

\* C38: a Harvest or Convert step submitted by a signer g that is not the
\* owner of the initialized position p fails and leaves the status and the
\* deadline of p unchanged.  harvest and the conversion handlers read of
\* their signer only that it signed, so their outcome is the same for
\* every g.
C38_OwnerOnlySaga ==
  \A p \in Users, g \in Signers :
    (users[p].is_initialized /\ g # users[p].user) =>
      /\ \A y \in FarmPays(vault, farm) :
           LET o == harvest(Cur, p, y[1], y[2])
           IN o.err # "Ok" /\ SagaUntouched(o.st, p)
      /\ \A s \in Strategies, second \in BOOLEAN, pool \in Venue :
           LET o == swap_reward_to_strategy_token(Cur, p, s, second, pool)
           IN o.err # "Ok" /\ SagaUntouched(o.st, p)

\* C39: a Convert step that names a strategy other than the one the
\* initialized position p refers to fails and does not advance the status
\* of p, on the direct path and on both legs of the settlement path.
C39_OwnStrategyOnly ==
  \A p \in Users, s \in Strategies, pool \in Venue :
    (users[p].is_initialized /\ s # users[p].strategy_account) =>
      /\ \A second \in BOOLEAN :
           LET o == swap_reward_to_strategy_token(Cur, p, s, second, pool)
           IN /\ o.err # "Ok"
              /\ o.st.users[p].user_status = users[p].user_status
      /\ \A second \in BOOLEAN :
           LET o == swap_farm_reward_to_usdc(Cur, p, s, second, pool)
           IN /\ o.err # "Ok"
              /\ o.st.users[p].user_status = users[p].user_status
      /\ LET o == swap_usdc_to_strategy_token(Cur, p, s, pool)
         IN /\ o.err # "Ok"
            /\ o.st.users[p].user_status = users[p].user_status

\* C40: a conversion step that succeeds sets the unconverted reward
\* remainder of a strategy to zero only when the venue swap was executed;
\* when the swap is skipped because the quote is below the dust floor, the
\* remainder keeps its value.
C40_RemainderKeptOnSkip ==
  \A p \in Users, s \in Strategies, second \in BOOLEAN, pool \in Venue :
    LET remain == RewardRemain(vault, s, second)
        a == swap_farm_reward_to_usdc(Cur, p, s, second, pool)
        b == swap_reward_to_strategy_token(Cur, p, s, second, pool)
    IN /\ (a.err = "Ok" /\ pool.quoted < DustFloor) =>
            RewardRemain(a.st.vault, s, second) = remain
       /\ (b.err = "Ok" /\ pool.quoted < DustFloor) =>
            RewardRemain(b.st.vault, s, second) = remain


====
